---- MODULE Spec2Model ----
(***************************************************************************)
(* Mythic Supply Oracle (index.js, v2): the reconciliation cycle           *)
(* (updateSupplyData), the price aggregator (updatePrice), the burn        *)
(* history store and the two account decoders, as a state machine.         *)
(*                                                                         *)
(* Node.js runs the program on one thread: the code between two awaits is  *)
(* one atomic step.  Every action below is one such run-to-completion      *)
(* segment; an API read can happen between any two of them, so every       *)
(* reachable state is a state a reader can observe.                        *)
(***************************************************************************)
EXTENDS Integers, Sequences, FiniteSets, TLC

\* ---------------------------------------------------------------- constants

\* index.js:59
TOTAL_SUPPLY == 1000000000
\* index.js:60
MYTH_DECIMALS == 9
\* index.js:60 (10 ** MYTH_DECIMALS, the literal 1e9 of lines 381, 459, 487)
LAMPORTS_PER_MYTH == 1000000000
\* index.js:97 and index.js:170
FEE_CONFIG_LEN == 235
VALIDATOR_LEN == 69

\* Scaled model sizes (the source values are in the comments).
\* index.js:67 MAX_HISTORY_ENTRIES = 8640
MAX_HISTORY_ENTRIES == 2
\* index.js:545 "burnHistory.length % 60"
SAVE_EVERY == 2
\* index.js:696-697 the 1h and 6h periods of the history query, in clock units
WINDOW_1H == 1
WINDOW_6H == 2
\* index.js:522, 698 24h window, in clock units
WINDOW_24H == 3
\* index.js:692 the default limit "500" of the history query (less than
\* MAX_HISTORY_ENTRIES, as in the source)
DEFAULT_LIMIT == 1
\* index.js:225 VALIDATOR_POLL_MS = 60000: less than one clock unit, so that
\* "now - lastValidatorFetch > VALIDATOR_POLL_MS" holds once the clock has moved
VALIDATOR_POLL_MS == 0
\* Number of updateSupplyData invocations that can be in flight at once
\* (setInterval does not wait for the previous invocation, index.js:780).
MaxOverlap == 2
\* Number of updateSupplyData invocations explored.
MaxCycles == 2
\* Clock range explored: Date.now() runs from StartClock to StartClock+MaxElapsed.
MaxElapsed == 1

\* index.js:529 7d window = 7 * 24h
WINDOW_7D == 7 * WINDOW_24H
StartClock == WINDOW_7D + 1

Procs == 1..MaxOverlap

\* ---------------------------------------------------------------- JS values
\* A nullable JS number is a record: [num |-> n], NULL, or NAN.

NULL == [null |-> TRUE]
NAN == [nan |-> TRUE]
Num(n) == [num |-> n]
IsNum(x) == "num" \in DOMAIN x

\* JS truthiness of a nullable number: null, NaN and 0 are falsy.
Truthy(x) == IsNum(x) /\ x.num # 0
\* a || b
JsOr(a, b) == IF Truthy(a) THEN a ELSE b
\* a ?? b
JsNullish(a, b) == IF a = NULL THEN b ELSE a

\* ---------------------------------------------------------------- price providers
\* What each provider's HTTP exchange can produce.  kind = "fail" covers
\* !res.ok, a thrown fetch/json error and (DexScreener) an empty pair list.
\* Prices are whole numbers so that the float arithmetic of the source is exact.

DexResponses ==
    { [kind |-> "fail"],
      [kind |-> "ok", priceUsd |-> Num(1), priceNative |-> Num(1), marketCap |-> Num(7),
       volume |-> Num(3), priceChange |-> Num(1), fdv |-> Num(9), liquidity |-> Num(4)],
      [kind |-> "ok", priceUsd |-> Num(2), priceNative |-> NAN, marketCap |-> NULL,
       volume |-> NULL, priceChange |-> NULL, fdv |-> NULL, liquidity |-> NULL],
      [kind |-> "ok", priceUsd |-> NAN, priceNative |-> NAN, marketCap |-> NULL,
       volume |-> NULL, priceChange |-> NULL, fdv |-> NULL, liquidity |-> NULL] }

JupResponses ==
    { [kind |-> "fail"],
      [kind |-> "ok", price |-> Num(2)],
      [kind |-> "ok", price |-> NAN] }

\* usd_market_cap: a number, absent, or a truthy non-numeric value ("cap" with
\* numeric = FALSE), for which usd_market_cap / TOTAL_SUPPLY is NaN.
PumpResponses ==
    { [kind |-> "fail"],
      [kind |-> "ok", cap |-> NULL, numeric |-> TRUE, complete |-> NULL, replies |-> NULL,
       website |-> ""],
      [kind |-> "ok", cap |-> Num(TOTAL_SUPPLY), numeric |-> TRUE, complete |-> Num(1),
       replies |-> Num(5), website |-> "https://mythic.sh"],
      [kind |-> "ok", cap |-> Num(3), numeric |-> FALSE, complete |-> NULL,
       replies |-> NULL, website |-> ""] }

\* index.js:262-284.  parseFloat(x) || null: NaN and 0 become null.
fetchDexScreenerPrice(r) ==
    IF r.kind = "fail" THEN NULL
    ELSE [usd |-> JsOr(r.priceUsd, NULL),
          sol |-> JsOr(r.priceNative, NULL),
          marketCap |-> JsOr(r.marketCap, NULL),
          volume24h |-> JsOr(r.volume, NULL),
          priceChange24h |-> JsOr(r.priceChange, NULL),
          fdv |-> JsOr(r.fdv, NULL),
          liquidity |-> JsOr(r.liquidity, NULL),
          source |-> "dexscreener"]

\* index.js:286-297
fetchJupiterPrice(r) ==
    IF r.kind = "fail" THEN NULL
    ELSE [usd |-> JsOr(r.price, NULL), sol |-> NULL, marketCap |-> NULL,
          volume24h |-> NULL, priceChange24h |-> NULL, fdv |-> NULL,
          liquidity |-> NULL, source |-> "jupiter"]

\* index.js:299-315
fetchPumpFunData(r) ==
    IF r.kind = "fail" THEN NULL
    ELSE [usd |-> IF Truthy(r.cap)
                  THEN (IF r.numeric THEN Num(r.cap.num \div TOTAL_SUPPLY) ELSE NAN)
                  ELSE NULL,
          marketCap |-> JsOr(r.cap, NULL),
          bondingCurveComplete |-> JsOr(r.complete, NULL),
          replyCount |-> JsOr(r.replies, NULL),
          website |-> r.website,
          source |-> "pumpfun"]

\* pumpData?.f ?? null
PumpField(pumpData, f) == IF pumpData = NULL THEN NULL ELSE JsNullish(pumpData[f], NULL)

\* The pumpfun sub-record of a quote; website is a string, "" standing for null
\* (data.website || null maps the empty string to null).
PumpfunOf(pumpData) ==
    [bondingCurveComplete |-> PumpField(pumpData, "bondingCurveComplete"),
     replyCount |-> PumpField(pumpData, "replyCount"),
     website |-> IF pumpData = NULL THEN "" ELSE pumpData.website]

NoPumpfun == PumpfunOf(NULL)

\* index.js:203-208, the quote before the first update
InitialPrice ==
    [usd |-> NULL, sol |-> NULL, marketCap |-> NULL, volume24h |-> NULL,
     priceChange24h |-> NULL, fdv |-> NULL, liquidity |-> NULL,
     source |-> "none", lastUpdate |-> 0, pumpfun |-> NoPumpfun]

\* index.js:326-341: the quote built from the primary source
PrimaryQuote(primary, dexData, pumpData, t) ==
    [usd |-> primary.usd,
     sol |-> JsOr(primary.sol, IF dexData = NULL THEN NULL ELSE dexData.sol),
     marketCap |-> JsOr(primary.marketCap, PumpField(pumpData, "marketCap")),
     volume24h |-> JsOr(primary.volume24h, NULL),
     priceChange24h |-> JsOr(primary.priceChange24h, NULL),
     fdv |-> JsOr(primary.fdv,
                  IF Truthy(primary.usd) THEN Num(primary.usd.num * TOTAL_SUPPLY) ELSE NULL),
     liquidity |-> JsOr(primary.liquidity, NULL),
     source |-> primary.source,
     lastUpdate |-> t,
     pumpfun |-> PumpfunOf(pumpData)]

\* index.js:344-352: the stored quote overwritten with pump.fun's fields
PumpQuote(old, pumpData, t) ==
    [old EXCEPT !.usd = pumpData.usd,
                !.marketCap = pumpData.marketCap,
                !.fdv = Num(pumpData.usd.num * TOTAL_SUPPLY),
                !.source = "pumpfun",
                !.lastUpdate = t,
                !.pumpfun = [bondingCurveComplete |-> pumpData.bondingCurveComplete,
                             replyCount |-> pumpData.replyCount,
                             website |-> pumpData.website]]

\* A merge that forgets the stored quote when no provider has a price.
MergePrice_ResetWhenNone(old, dexData, jupData, pumpData, t) ==
    LET primary == IF dexData # NULL THEN dexData ELSE jupData
    IN  IF primary # NULL THEN PrimaryQuote(primary, dexData, pumpData, t)
        ELSE IF pumpData # NULL /\ Truthy(pumpData.usd) THEN PumpQuote(old, pumpData, t)
        ELSE InitialPrice

\* A merge that takes the market cap from the primary source only.
MergePrice_CapFromPrimaryOnly(old, dexData, jupData, pumpData, t) ==
    LET primary == IF dexData # NULL THEN dexData ELSE jupData
    IN  IF primary # NULL
        THEN [PrimaryQuote(primary, dexData, pumpData, t) EXCEPT
                  !.marketCap = JsOr(primary.marketCap, NULL)]
        ELSE IF pumpData # NULL /\ Truthy(pumpData.usd) THEN PumpQuote(old, pumpData, t)
        ELSE old

\* index.js:324-353: the quote updatePrice leaves in supplyData.price, given the
\* stored quote, the three fetch results and the time.
MergePrice(old, dexData, jupData, pumpData, t) ==
    LET primary == IF dexData # NULL THEN dexData ELSE jupData
    IN  IF primary # NULL THEN PrimaryQuote(primary, dexData, pumpData, t)
        ELSE IF pumpData # NULL /\ Truthy(pumpData.usd) THEN PumpQuote(old, pumpData, t)
        ELSE old

\* ---------------------------------------------------------------- account decoders
\* A buffer is a sequence of bytes (0..255); JS offset o is index o + 1.
\* A missing buffer (null/undefined data) is NoData, a sequence that is no buffer.

NoData == << -1 >>

Byte(buf, offset) == buf[offset + 1]
Slice(buf, offset, n) == [i \in 1..n |-> buf[offset + i]]

\* buf.readUInt8 / readUInt16LE
readUInt8(buf, offset) == Byte(buf, offset)
readUInt16LE(buf, offset) == Byte(buf, offset) + 256 * Byte(buf, offset + 1)

\* The value of little-endian bytes b[1..n], for values the checker's integers hold.
RECURSIVE LeValue(_)
LeValue(b) == IF Len(b) = 0 THEN 0 ELSE b[1] + 256 * LeValue(Tail(b))

AllZero(b) == \A i \in 1..Len(b) : b[i] = 0
AllOnes(b) == \A i \in 1..Len(b) : b[i] = 255

\* ---- Number(bigint): the nearest IEEE-754 double, ties to even.
\* A magnitude is handled as its 64 bits, most significant first.
RECURSIVE Pow2(_)
Pow2(n) == IF n = 0 THEN 1 ELSE 2 * Pow2(n - 1)

\* The 64 bits of eight little-endian bytes.
Bits64(b) == [i \in 1..64 |-> (b[8 - ((i - 1) \div 8)] \div Pow2(7 - ((i - 1) % 8))) % 2]

\* Index of the most significant set bit (65 when there is none).
TopBit(bits) == IF \A i \in 1..64 : bits[i] = 0 THEN 65
                ELSE CHOOSE i \in 1..64 : bits[i] = 1 /\ \A j \in 1..(i - 1) : bits[j] = 0

\* Little-endian bytes of 64 bits, a ninth byte 1 when carry is set (2^64).
BytesOf(bits, carry) ==
    [i \in 1..(IF carry THEN 9 ELSE 8) |->
        IF i = 9 THEN 1
        ELSE LET base == 64 - 8 * i
             IN  128 * bits[base + 1] + 64 * bits[base + 2] + 32 * bits[base + 3]
                 + 16 * bits[base + 4] + 8 * bits[base + 5] + 4 * bits[base + 6]
                 + 2 * bits[base + 7] + bits[base + 8]]

\* The double nearest to the magnitude b (eight little-endian bytes), as the
\* little-endian bytes of its integer value: 53 significant bits are kept, the
\* rest rounds to nearest, ties to even.
RoundToDouble(b) ==
    LET bits == Bits64(b)
        top == TopBit(bits)
        last == top + 52                       \* last bit the significand keeps
    IN  IF last >= 64 THEN b
        ELSE LET up == bits[last + 1] = 1
                       /\ (bits[last] = 1 \/ \E i \in (last + 2)..64 : bits[i] = 1)
                 kept == [i \in 1..64 |-> IF i <= last THEN bits[i] ELSE 0]
             IN  IF ~up THEN BytesOf(kept, FALSE)
                 ELSE IF \A i \in top..last : kept[i] = 1
                 THEN \* the increment carries out of the significand
                      IF top = 1 THEN BytesOf([i \in 1..64 |-> 0], TRUE)
                      ELSE BytesOf([i \in 1..64 |-> IF i = top - 1 THEN 1 ELSE 0], FALSE)
                 ELSE LET z == CHOOSE i \in top..last :
                                   kept[i] = 0 /\ \A j \in (i + 1)..last : kept[j] = 1
                      IN  BytesOf([i \in 1..64 |-> IF i < z THEN kept[i]
                                                   ELSE IF i = z THEN 1 ELSE 0], FALSE)

\* The magnitude of a negative two's-complement value: invert and add one.
Negate(b) ==
    LET inv == [i \in 1..64 |-> 1 - Bits64(b)[i]]
    IN  IF \A i \in 1..64 : inv[i] = 1 THEN BytesOf([i \in 1..64 |-> 0], TRUE)
        ELSE LET z == CHOOSE i \in 1..64 : inv[i] = 0 /\ \A j \in (i + 1)..64 : inv[j] = 1
             IN  BytesOf([i \in 1..64 |-> IF i < z THEN inv[i]
                                          ELSE IF i = z THEN 1 ELSE 0], FALSE)

\* Number(buf.readBigUInt64LE(offset)): an integer below 2^31; a wider value is
\* [wide |-> the little-endian bytes of the double's value].
readU64(buf, offset) ==
    LET b == Slice(buf, offset, 8)
    IN  IF AllZero(SubSeq(b, 5, 8)) /\ b[4] < 128
        THEN LeValue(SubSeq(b, 1, 4))
        ELSE [wide |-> RoundToDouble(b)]

\* Number(buf.readBigInt64LE(offset)): two's complement; a wide negative value
\* is [negative |-> the bytes of the double's magnitude].
readI64(buf, offset) ==
    LET b == Slice(buf, offset, 8)
    IN  IF AllZero(SubSeq(b, 5, 8)) /\ b[4] < 128
        THEN LeValue(SubSeq(b, 1, 4))
        ELSE IF AllOnes(SubSeq(b, 5, 8)) /\ b[4] >= 128
        THEN -1 - LeValue([i \in 1..4 |-> 255 - b[i]])
        ELSE IF b[8] < 128 THEN [wide |-> RoundToDouble(b)]
        ELSE [negative |-> RoundToDouble(Negate(b))]

\* Base-58 rendering of an address (PublicKey.toBase58): one "1" per leading
\* zero byte, then the big-endian number in base 58, most significant digit first.
Base58Alphabet ==
    << "1","2","3","4","5","6","7","8","9","A","B","C","D","E","F","G","H","J","K","L",
       "M","N","P","Q","R","S","T","U","V","W","X","Y","Z","a","b","c","d","e","f","g",
       "h","i","j","k","m","n","o","p","q","r","s","t","u","v","w","x","y","z" >>

\* Long division of big-endian bytes by 58: <<quotient bytes, remainder>>.
RECURSIVE DivMod58(_, _)
DivMod58(bytes, carry) ==
    IF Len(bytes) = 0 THEN << <<>>, carry >>
    ELSE LET cur == carry * 256 + bytes[1]
             rest == DivMod58(Tail(bytes), cur % 58)
         IN  << <<cur \div 58>> \o rest[1], rest[2] >>

RECURSIVE Base58Digits(_)
Base58Digits(bytes) ==
    IF AllZero(bytes) THEN <<>>
    ELSE LET dm == DivMod58(bytes, 0)
         IN  Append(Base58Digits(dm[1]), Base58Alphabet[dm[2] + 1])

RECURSIVE LeadingZeros(_)
LeadingZeros(bytes) ==
    IF Len(bytes) = 0 \/ bytes[1] # 0 THEN 0 ELSE 1 + LeadingZeros(Tail(bytes))

toBase58(bytes) == [i \in 1..LeadingZeros(bytes) |-> "1"] \o Base58Digits(bytes)

readPubkey(buf, offset) == toBase58(Slice(buf, offset, 32))

\* index.js:109-113
readFeeSplit(buf, offset) ==
    [validatorBps |-> readUInt16LE(buf, offset),
     foundationBps |-> readUInt16LE(buf, offset + 2),
     burnBps |-> readUInt16LE(buf, offset + 4)]

\* A decoder that does not consume the bump byte: the six counters that follow
\* it are read one byte early.
FeeConfigFields_SkipsBump(data) ==
    IF readUInt8(data, 0) = 0 THEN NULL
    ELSE [isInitialized |-> TRUE,
          admin |-> readPubkey(data, 1),
          foundationWallet |-> readPubkey(data, 33),
          burnAddress |-> readPubkey(data, 65),
          mythMint |-> readPubkey(data, 97),
          gasSplit |-> readFeeSplit(data, 129),
          computeSplit |-> readFeeSplit(data, 135),
          inferenceSplit |-> readFeeSplit(data, 141),
          bridgeSplit |-> readFeeSplit(data, 147),
          currentEpoch |-> readU64(data, 153),
          totalBurned |-> readU64(data, 161),
          totalDistributed |-> readU64(data, 169),
          totalFoundationCollected |-> readU64(data, 177),
          isPaused |-> readUInt8(data, 185) # 0,
          bump |-> readUInt8(data, 186),
          gasBurned |-> readU64(data, 186),
          computeBurned |-> readU64(data, 194),
          inferenceBurned |-> readU64(data, 202),
          bridgeBurned |-> readU64(data, 210),
          subnetBurned |-> readU64(data, 218),
          totalFoundationBurned |-> readU64(data, 226)]

\* index.js:115-161.  The reads advance one cursor in declared order; the offsets
\* below are the cursor's value at each read.
FeeConfigFields(data) ==
    IF readUInt8(data, 0) = 0 THEN NULL
    ELSE [isInitialized |-> TRUE,
          admin |-> readPubkey(data, 1),
          foundationWallet |-> readPubkey(data, 33),
          burnAddress |-> readPubkey(data, 65),
          mythMint |-> readPubkey(data, 97),
          gasSplit |-> readFeeSplit(data, 129),
          computeSplit |-> readFeeSplit(data, 135),
          inferenceSplit |-> readFeeSplit(data, 141),
          bridgeSplit |-> readFeeSplit(data, 147),
          currentEpoch |-> readU64(data, 153),
          totalBurned |-> readU64(data, 161),
          totalDistributed |-> readU64(data, 169),
          totalFoundationCollected |-> readU64(data, 177),
          isPaused |-> readUInt8(data, 185) # 0,
          bump |-> readUInt8(data, 186),
          gasBurned |-> readU64(data, 187),
          computeBurned |-> readU64(data, 195),
          inferenceBurned |-> readU64(data, 203),
          bridgeBurned |-> readU64(data, 211),
          subnetBurned |-> readU64(data, 219),
          totalFoundationBurned |-> readU64(data, 227)]

\* A read past the end of the buffer: Buffer.readUInt8 and its siblings throw
\* a RangeError.
RANGE_ERROR == [thrown |-> "RangeError"]

\* A decoder whose length check has a wrong minimum: buffers of 225..234 bytes
\* pass it and the reads run off the end.
deserializeFeeConfig_WrongMinimum(data) ==
    IF data = NoData \/ Len(data) < FEE_CONFIG_LEN - 10 THEN NULL
    ELSE IF Len(data) < FEE_CONFIG_LEN
    THEN (IF readUInt8(data, 0) = 0 THEN NULL ELSE RANGE_ERROR)
    ELSE FeeConfigFields(data)

\* index.js:96-162: NULL or the record
deserializeFeeConfig(data) ==
    IF data = NoData \/ Len(data) < FEE_CONFIG_LEN THEN NULL
    ELSE FeeConfigFields(data)

\* A decoder that reads totalClaimed before pendingRewards.
deserializeValidatorFeeAccount_Swapped(data) ==
    IF data = NoData \/ Len(data) < VALIDATOR_LEN THEN NULL
    ELSE [validator |-> readPubkey(data, 0),
          stakeAmount |-> readU64(data, 32),
          aiCapable |-> readUInt8(data, 40) # 0,
          rewardMultiplier |-> readUInt16LE(data, 41),
          pendingRewards |-> readU64(data, 51),
          totalClaimed |-> readU64(data, 43),
          registeredAt |-> readI64(data, 59),
          isActive |-> readUInt8(data, 67) # 0,
          bump |-> readUInt8(data, 68)]

\* index.js:169-191
deserializeValidatorFeeAccount(data) ==
    IF data = NoData \/ Len(data) < VALIDATOR_LEN THEN NULL
    ELSE [validator |-> readPubkey(data, 0),
          stakeAmount |-> readU64(data, 32),
          aiCapable |-> readUInt8(data, 40) # 0,
          rewardMultiplier |-> readUInt16LE(data, 41),
          pendingRewards |-> readU64(data, 43),
          totalClaimed |-> readU64(data, 51),
          registeredAt |-> readI64(data, 59),
          isActive |-> readUInt8(data, 67) # 0,
          bump |-> readUInt8(data, 68)]

\* ---- account images used as query results
Zeros(n) == [i \in 1..n |-> 0]
\* Little-endian bytes of a small number.
RECURSIVE LeBytes(_, _)
LeBytes(v, n) == IF n = 0 THEN <<>> ELSE <<v % 256>> \o LeBytes(v \div 256, n - 1)

\* A fee-config account image: initialized flag, burn bps of the gas split,
\* totalBurned and the gas/compute burn counters; every other field zero.
FeeConfigImage(init, total, gas, compute) ==
    <<init>> \o Zeros(128)
    \o LeBytes(5000, 2) \o LeBytes(1000, 2) \o LeBytes(4000, 2) \o Zeros(18)
    \o LeBytes(1, 8) \o LeBytes(total, 8) \o Zeros(16)
    \o <<0, 254>>
    \o LeBytes(gas, 8) \o LeBytes(compute, 8) \o Zeros(32)

\* A validator account image.
ValidatorImage(id, stake, active) ==
    Zeros(31) \o <<id>> \o LeBytes(stake, 8) \o <<1>> \o LeBytes(100, 2)
    \o Zeros(16) \o LeBytes(1700000000, 8) \o <<active, 255>>

\* A fee-config account image from its fields f: addresses as 32 bytes, split
\* fields and bump as numbers, flags as 0/1, counters as 8 little-endian bytes.
FeeConfigLayout(f) ==
    <<f.isInitialized>> \o f.admin \o f.foundationWallet \o f.burnAddress \o f.mythMint
    \o LeBytes(f.gasSplit[1], 2) \o LeBytes(f.gasSplit[2], 2) \o LeBytes(f.gasSplit[3], 2)
    \o LeBytes(f.computeSplit[1], 2) \o LeBytes(f.computeSplit[2], 2)
    \o LeBytes(f.computeSplit[3], 2)
    \o LeBytes(f.inferenceSplit[1], 2) \o LeBytes(f.inferenceSplit[2], 2)
    \o LeBytes(f.inferenceSplit[3], 2)
    \o LeBytes(f.bridgeSplit[1], 2) \o LeBytes(f.bridgeSplit[2], 2)
    \o LeBytes(f.bridgeSplit[3], 2)
    \o f.currentEpoch \o f.totalBurned \o f.totalDistributed \o f.totalFoundationCollected
    \o <<f.isPaused, f.bump>>
    \o f.gasBurned \o f.computeBurned \o f.inferenceBurned \o f.bridgeBurned
    \o f.subnetBurned \o f.totalFoundationBurned

\* An initialized fee-config account whose fields all differ.
DistinctFeeConfig ==
    [isInitialized |-> 1,
     admin |-> Zeros(31) \o <<1>>, foundationWallet |-> Zeros(31) \o <<58>>,
     burnAddress |-> Zeros(32), mythMint |-> Zeros(31) \o <<57>>,
     gasSplit |-> <<5000, 1000, 4000>>, computeSplit |-> <<1, 2, 3>>,
     inferenceSplit |-> <<4, 5, 6>>, bridgeSplit |-> <<7, 8, 9>>,
     currentEpoch |-> LeBytes(11, 8), totalBurned |-> LeBytes(12, 8),
     totalDistributed |-> LeBytes(13, 8), totalFoundationCollected |-> LeBytes(14, 8),
     isPaused |-> 1, bump |-> 254,
     gasBurned |-> LeBytes(15, 8), computeBurned |-> LeBytes(16, 8),
     inferenceBurned |-> LeBytes(17, 8), bridgeBurned |-> LeBytes(18, 8),
     subnetBurned |-> LeBytes(19, 8), totalFoundationBurned |-> LeBytes(20, 8)]

\* 5,000,000,000 = 0x12A05F200, 2^53 + 1 and 2^64 - 1 as little-endian bytes.
FiveBillion == <<0, 242, 5, 42, 1, 0, 0, 0>>
TwoTo53Plus1 == <<1, 0, 0, 0, 0, 0, 32, 0>>
MaxU64 == <<255, 255, 255, 255, 255, 255, 255, 255>>
\* -(2^53 + 1) in two's complement.
MinusTwoTo53Minus1 == <<255, 255, 255, 255, 255, 255, 223, 255>>

\* An initialized account that has burned 5,000,000,000 base units, every
\* other counter zero.
BurnedFiveBillion ==
    [DistinctFeeConfig EXCEPT !.currentEpoch = Zeros(8), !.totalBurned = FiveBillion,
        !.totalDistributed = Zeros(8), !.totalFoundationCollected = Zeros(8),
        !.gasBurned = Zeros(8), !.computeBurned = Zeros(8), !.inferenceBurned = Zeros(8),
        !.bridgeBurned = Zeros(8), !.subnetBurned = Zeros(8),
        !.totalFoundationBurned = Zeros(8)]

\* An initialized account with counters beyond 2^53.
HugeCounters ==
    [DistinctFeeConfig EXCEPT !.totalBurned = TwoTo53Plus1, !.gasBurned = MaxU64]

\* A validator account image from its fields.
ValidatorLayout(f) ==
    f.validator \o f.stakeAmount \o <<f.aiCapable>> \o LeBytes(f.rewardMultiplier, 2)
    \o f.pendingRewards \o f.totalClaimed \o f.registeredAt \o <<f.isActive, f.bump>>

DistinctValidator ==
    [validator |-> Zeros(31) \o <<2>>, stakeAmount |-> LeBytes(5, 8), aiCapable |-> 1,
     rewardMultiplier |-> 100, pendingRewards |-> LeBytes(7, 8),
     totalClaimed |-> LeBytes(9, 8), registeredAt |-> LeBytes(1700000000, 8),
     isActive |-> 1, bump |-> 255]

HugeValidator ==
    [DistinctValidator EXCEPT !.stakeAmount = TwoTo53Plus1,
                              !.registeredAt = MinusTwoTo53Minus1]

\* ---------------------------------------------------------------- chain queries
\* What each RPC exchange can produce.  kind = "throw" is a rejected or
\* timed-out request (withTimeout rejects with "timeout" after 8000/10000 ms);
\* both reach the same catch block.  Amounts are whole tokens: the raw base-unit
\* amounts (amount * 10^9) are beyond the checker's integers, so a response
\* carries the quotient the source computes from it.

Throw == [kind |-> "throw", message |-> "timeout"]
Failed == [kind |-> "throw", message |-> "fetch failed"]

L1Responses ==
    { Throw, [kind |-> "unparsed"], [kind |-> "ok", supply |-> 497000000] }

L2Responses ==
    { Throw, [kind |-> "ok", total |-> 503000000] }

BridgeResponses ==
    { Throw, [kind |-> "unparsed"], [kind |-> "ok", amount |-> 503000000] }

FeeConfigResponses ==
    { Throw,
      [kind |-> "data", data |-> FeeConfigImage(0, 0, 0, 0)],
      [kind |-> "data", data |-> FeeConfigImage(1, LAMPORTS_PER_MYTH, LAMPORTS_PER_MYTH, 0)],
      [kind |-> "data",
       data |-> FeeConfigImage(1, 2 * LAMPORTS_PER_MYTH, LAMPORTS_PER_MYTH, LAMPORTS_PER_MYTH)] }

FoundationResponses ==
    { Failed, [kind |-> "ok", balance |-> 3] }

ValidatorResponses ==
    { Throw,
      [kind |-> "ok", accounts |-> << [pubkey |-> Zeros(31) \o <<7>>, data |-> ValidatorImage(1, 5, 1)] >>] }

\* index.js:359-371
fetchL1Supply(r) ==
    CASE r.kind = "ok" -> [supply |-> r.supply, error |-> ""]
      [] r.kind = "unparsed" -> [supply |-> TOTAL_SUPPLY, error |-> "Could not parse L1 mint"]
      [] r.kind = "throw" -> [supply |-> TOTAL_SUPPLY, error |-> r.message]

\* index.js:373-387
fetchL2Supply(r) ==
    CASE r.kind = "ok" -> [supply |-> r.total, error |-> ""]
      [] r.kind = "unparsed" -> [supply |-> 0, error |-> "Could not fetch L2 supply"]
      [] r.kind = "throw" -> [supply |-> 0, error |-> r.message]

\* index.js:389-407
fetchBridgeLocked(r) ==
    CASE r.kind = "ok" -> [locked |-> r.amount, error |-> ""]
      [] r.kind = "unparsed" -> [locked |-> 0, error |-> ""]
      [] r.kind = "throw" -> [locked |-> 0, error |-> r.message]

\* index.js:409-429
fetchFeeConfig(r) ==
    CASE r.kind = "throw" -> [config |-> NULL, error |-> r.message]
      [] r.kind = "notfound" -> [config |-> NULL, error |-> "FeeConfig PDA not found"]
      [] r.kind = "data" ->
            LET config == deserializeFeeConfig(r.data)
            IN  IF config = NULL
                THEN [config |-> NULL, error |-> "FeeConfig not initialized or too small"]
                ELSE [config |-> config, error |-> ""]

\* index.js:441-448: the decoded accounts, undecodable ones skipped
RECURSIVE DecodeValidators(_)
DecodeValidators(accounts) ==
    IF Len(accounts) = 0 THEN <<>>
    ELSE LET vfa == deserializeValidatorFeeAccount(accounts[1].data)
             rest == DecodeValidators(Tail(accounts))
         IN  IF vfa # NULL
             THEN << [address |-> toBase58(accounts[1].pubkey),
                      validator |-> vfa.validator,
                      stakeAmount |-> vfa.stakeAmount,
                      aiCapable |-> vfa.aiCapable,
                      rewardMultiplier |-> vfa.rewardMultiplier,
                      pendingRewards |-> vfa.pendingRewards,
                      totalClaimed |-> vfa.totalClaimed,
                      registeredAt |-> vfa.registeredAt,
                      isActive |-> vfa.isActive,
                      bump |-> vfa.bump] >> \o rest
             ELSE rest

\* index.js:431-453: NULL (keep the previous cache) or the array, as [array |-> _]
fetchValidators(r) ==
    IF r.kind = "throw" THEN NULL ELSE [array |-> DecodeValidators(r.accounts)]

\* A fetch whose promise rejects instead of resolving to a result record.
REJECTED == [rejected |-> TRUE]

\* fetchFoundationBalance without its try/catch.
fetchFoundationBalance_NoCatch(r) ==
    CASE r.kind = "ok" -> [balance |-> r.balance, error |-> ""]
      [] r.kind = "throw" -> REJECTED

\* index.js:455-463
fetchFoundationBalance(r) ==
    CASE r.kind = "ok" -> [balance |-> r.balance, error |-> ""]
      [] r.kind = "throw" -> [balance |-> 0, error |-> r.message]

\* ---------------------------------------------------------------- state

VARIABLES
    supplyData,           \* index.js:195 the current snapshot object
    builtBy,              \* which invocation constructed the object supplyData refers to (0: the initial object)
    pricedBy,             \* which invocation's updatePrice last completed (0: none)
    burnHistory,          \* index.js:218
    last24hBurnSnapshot,  \* index.js:219
    last7dBurnSnapshot,   \* index.js:220
    validatorCache,       \* index.js:223
    lastValidatorFetch,   \* index.js:224
    historyFile,          \* data/burn_history.json
    clock,                \* Date.now()
    started,              \* the app.listen callback has run
    cycles,               \* number of updateSupplyData invocations so far
    pc,                   \* per invocation slot: where the invocation is suspended
    inv,                  \* per slot: the invocation's number
    now,                  \* per slot: the local "now" of index.js:506
    errors,               \* per slot: the local "errors" of index.js:552
    fault,                \* an invocation's promise rejected (nobody handles it)
    priceResults,         \* index.js:318 dexData, jupData, pumpData of the latest updatePrice
    chainResults,         \* index.js:466 the five results of the latest resumed invocation
    response,             \* the latest API exchange: route, request and response body
    savedBy,              \* the invocation that last called saveBurnHistory (0: none)
    decInput,             \* decoder harness: schema and buffer under decoding
    decOutput             \* decoder harness: the decoder's result

vars == << supplyData, builtBy, pricedBy, burnHistory, last24hBurnSnapshot,
           last7dBurnSnapshot, validatorCache, lastValidatorFetch, historyFile, clock,
           started, cycles, pc, inv, now, errors, fault, priceResults, chainResults, response,
           savedBy,
           decInput, decOutput >>

snapshotVars == << supplyData, builtBy >>
historyVars == << burnHistory, last24hBurnSnapshot, last7dBurnSnapshot >>
validatorVars == << validatorCache, lastValidatorFetch >>
procVars == << pc, inv, now, errors >>
decVars == << decInput, decOutput >>

\* ---------------------------------------------------------------- history store

\* arr.slice(-n) for n > 0
SliceLast(arr, n) == IF Len(arr) <= n THEN arr ELSE SubSeq(arr, Len(arr) - n + 1, Len(arr))

\* arr.find(e => e.timestamp >= cutoff): index of the first match, 0 if none
RECURSIVE FindFrom(_, _, _)
FindFrom(arr, cutoff, i) ==
    IF i > Len(arr) THEN 0
    ELSE IF arr[i].timestamp >= cutoff THEN i
    ELSE FindFrom(arr, cutoff, i + 1)

\* A lookup that takes the latest matching entry instead of the earliest.
WindowSnapshot_Latest(old, arr, cutoff) ==
    IF FindFrom(arr, cutoff, 1) = 0 THEN old
    ELSE [timestamp |-> arr[Len(arr)].timestamp, totalBurned |-> arr[Len(arr)].totalBurned]

\* index.js:521-533: the window snapshot after a lookup, the old one kept when
\* nothing matches
WindowSnapshot(old, arr, cutoff) ==
    LET i == FindFrom(arr, cutoff, 1)
    IN  IF i = 0 THEN old
        ELSE [timestamp |-> arr[i].timestamp, totalBurned |-> arr[i].totalBurned]

\* index.js:507-515
HistoryEntry(t, feeConfig) ==
    LET f(name) == IF feeConfig = NULL THEN 0 ELSE feeConfig[name]
    IN  [timestamp |-> t,
         totalBurned |-> f("totalBurned"),
         gasBurned |-> f("gasBurned"),
         computeBurned |-> f("computeBurned"),
         inferenceBurned |-> f("inferenceBurned"),
         bridgeBurned |-> f("bridgeBurned"),
         subnetBurned |-> f("subnetBurned")]

\* A trim that keeps the head of the array: slice(0, MAX) for slice(-MAX).
PushHistory_KeepOldest(arr, entry) ==
    LET pushed == Append(arr, entry)
    IN  IF Len(pushed) > MAX_HISTORY_ENTRIES
        THEN SubSeq(pushed, 1, MAX_HISTORY_ENTRIES)
        ELSE pushed

\* A trim that already evicts when the array reaches MAX_HISTORY_ENTRIES.
PushHistory_EvictsEarly(arr, entry) ==
    LET pushed == Append(arr, entry)
    IN  IF Len(pushed) >= MAX_HISTORY_ENTRIES
        THEN SliceLast(pushed, MAX_HISTORY_ENTRIES - 1)
        ELSE pushed

\* index.js:516-519: push, then trim
PushHistory(arr, entry) ==
    LET pushed == Append(arr, entry)
    IN  IF Len(pushed) > MAX_HISTORY_ENTRIES
        THEN SliceLast(pushed, MAX_HISTORY_ENTRIES)
        ELSE pushed

\* The history file: missing, unreadable/not JSON ("corrupt"), a JSON value that
\* is no array ("other"), or an array of entries.
OldEntry(t, burned) ==
    [timestamp |-> t, totalBurned |-> burned, gasBurned |-> burned, computeBurned |-> 0,
     inferenceBurned |-> 0, bridgeBurned |-> 0, subnetBurned |-> 0]

HistoryFiles ==
    { [kind |-> "missing"],
      [kind |-> "corrupt"],
      [kind |-> "array",
       entries |-> << OldEntry(0, 0),
                      OldEntry(StartClock - WINDOW_24H, LAMPORTS_PER_MYTH),
                      OldEntry(StartClock - 1, LAMPORTS_PER_MYTH) >>],
      [kind |-> "array", entries |-> << OldEntry(StartClock - WINDOW_24H, 80000) >>] }

\* index.js:229-248: <<burnHistory, last24hBurnSnapshot>> after loading
loadBurnHistory(file, history, snap24, t) ==
    IF file.kind = "array"
    THEN LET loaded == SliceLast(file.entries, MAX_HISTORY_ENTRIES)
         IN  << loaded, WindowSnapshot(snap24, loaded, t - WINDOW_24H) >>
    ELSE << history, snap24 >>

\* index.js:250-258: the file after saveBurnHistory; a failed write leaves it
saveBurnHistory(file, history, ok) ==
    IF ok THEN [kind |-> "array", entries |-> SliceLast(history, MAX_HISTORY_ENTRIES)]
    ELSE file

\* ---------------------------------------------------------------- reconciliation

Abs(x) == IF x < 0 THEN -x ELSE x

\* Math.min
Min(a, b) == IF a < b THEN a ELSE b

\* index.js:195-215 (the constant mint, program and meta fields are left out;
\* foundationBalance is not a field of the initial object: NULL)
InitialSupplyData ==
    [totalSupply |-> TOTAL_SUPPLY,
     circulatingSupply |-> TOTAL_SUPPLY,
     burned |-> 0,
     l1 |-> [supply |-> TOTAL_SUPPLY, locked |-> 0, circulating |-> TOTAL_SUPPLY],
     l2 |-> [supply |-> 0],
     bridge |-> [status |-> "synced", lastCheck |-> StartClock, driftAmount |-> 0],
     feeConfig |-> NULL,
     foundationBalance |-> NULL,
     price |-> InitialPrice,
     lastUpdated |-> StartClock]

\* updateSupplyData with a total supply summed from the two ledgers.
ReconciledSnapshot_SumOfLedgers(old, l1Result, l2Result, bridgeResult, feeConfigResult, foundationResult, t) ==
    LET l1Supply == l1Result.supply
        l2Supply == l2Result.supply
        bridgeLocked == bridgeResult.locked
        l1Circulating == l1Supply - bridgeLocked
        drift == Abs(l2Supply - bridgeLocked)
        driftStatus == IF drift > 1 THEN "drift_detected" ELSE "synced"
        feeConfig == IF feeConfigResult.config # NULL
                     THEN feeConfigResult.config ELSE old.feeConfig
        totalBurnedMYTH == IF feeConfigResult.config # NULL
                           THEN feeConfig.totalBurned \div LAMPORTS_PER_MYTH ELSE 0
        circulatingSupply == TOTAL_SUPPLY - totalBurnedMYTH
    IN  [old EXCEPT !.totalSupply = l1Supply + l2Supply,
                    !.circulatingSupply = circulatingSupply,
                    !.burned = totalBurnedMYTH,
                    !.l1 = [supply |-> l1Supply, locked |-> bridgeLocked,
                            circulating |-> l1Circulating],
                    !.l2 = [supply |-> l2Supply],
                    !.bridge = [status |-> driftStatus, lastCheck |-> t,
                                driftAmount |-> drift],
                    !.feeConfig = feeConfig,
                    !.foundationBalance = Num(foundationResult.balance),
                    !.lastUpdated = t]

\* updateSupplyData with a status that stays drift_detected once it has been set.
ReconciledSnapshot_Sticky(old, l1Result, l2Result, bridgeResult, feeConfigResult, foundationResult, t) ==
    LET l1Supply == l1Result.supply
        l2Supply == l2Result.supply
        bridgeLocked == bridgeResult.locked
        l1Circulating == l1Supply - bridgeLocked
        drift == Abs(l2Supply - bridgeLocked)
        driftStatus == IF drift > 1 \/ old.bridge.status = "drift_detected"
                       THEN "drift_detected" ELSE "synced"
        feeConfig == IF feeConfigResult.config # NULL
                     THEN feeConfigResult.config ELSE old.feeConfig
        totalBurnedMYTH == IF feeConfigResult.config # NULL
                           THEN feeConfig.totalBurned \div LAMPORTS_PER_MYTH ELSE 0
        circulatingSupply == TOTAL_SUPPLY - totalBurnedMYTH
    IN  [old EXCEPT !.totalSupply = TOTAL_SUPPLY,
                    !.circulatingSupply = circulatingSupply,
                    !.burned = totalBurnedMYTH,
                    !.l1 = [supply |-> l1Supply, locked |-> bridgeLocked,
                            circulating |-> l1Circulating],
                    !.l2 = [supply |-> l2Supply],
                    !.bridge = [status |-> driftStatus, lastCheck |-> t,
                                driftAmount |-> drift],
                    !.feeConfig = feeConfig,
                    !.foundationBalance = Num(foundationResult.balance),
                    !.lastUpdated = t]

\* index.js:474-503: the object assigned to supplyData
ReconciledSnapshot(old, l1Result, l2Result, bridgeResult, feeConfigResult, foundationResult, t) ==
    LET l1Supply == l1Result.supply
        l2Supply == l2Result.supply
        bridgeLocked == bridgeResult.locked
        l1Circulating == l1Supply - bridgeLocked
        drift == Abs(l2Supply - bridgeLocked)
        driftStatus == IF drift > 1 THEN "drift_detected" ELSE "synced"
        feeConfig == IF feeConfigResult.config # NULL
                     THEN feeConfigResult.config ELSE old.feeConfig
        totalBurnedMYTH == IF feeConfigResult.config # NULL
                           THEN feeConfig.totalBurned \div LAMPORTS_PER_MYTH ELSE 0
        circulatingSupply == TOTAL_SUPPLY - totalBurnedMYTH
    IN  [old EXCEPT !.totalSupply = TOTAL_SUPPLY,
                    !.circulatingSupply = circulatingSupply,
                    !.burned = totalBurnedMYTH,
                    !.l1 = [supply |-> l1Supply, locked |-> bridgeLocked,
                            circulating |-> l1Circulating],
                    !.l2 = [supply |-> l2Supply],
                    !.bridge = [status |-> driftStatus, lastCheck |-> t,
                                driftAmount |-> drift],
                    !.feeConfig = feeConfig,
                    !.foundationBalance = Num(foundationResult.balance),
                    !.lastUpdated = t]

\* index.js:552: the non-empty error messages, in order
Warnings(results) == SelectSeq([i \in 1..Len(results) |-> results[i].error],
                               LAMBDA e : e # "")

\* saveBurnHistory without its try/catch: a failed write ends the invocation.
ResumeAfterSave_NoCatch(history, ok) ==
    IF Len(history) % SAVE_EVERY = 0 /\ ~ok THEN "aborted" ELSE "price"

\* index.js:250-258, 544-550: saveBurnHistory catches its own failure, so the
\* invocation goes on to updatePrice whether or not a write was due or worked
ResumeAfterSave(history, ok) == "price"

\* index.js:544-547
SaveIfDue(file, history, ok) ==
    IF Len(history) % SAVE_EVERY = 0 THEN saveBurnHistory(file, history, ok) ELSE file

\* index.js:544-547: who called saveBurnHistory last, after invocation i has
\* passed the test
SavedIfDue(last, history, i) == IF Len(history) % SAVE_EVERY = 0 THEN i ELSE last

\* The results of the fetch functions, computed once per response.
FeeConfigResults == { [response |-> r, result |-> fetchFeeConfig(r)] : r \in FeeConfigResponses }
ValidatorResults == { [response |-> r, result |-> fetchValidators(r)] : r \in ValidatorResponses }

\* The inputs of one fan-out: what each of the five queries settles to.
ChainInputs ==
    [l1 : L1Responses, l2 : L2Responses, bridge : BridgeResponses,
     feeConfig : FeeConfigResults, foundation : FoundationResponses]

\* What the three price fetches of one updatePrice settle to.
PriceInputs == [dex : DexResponses, jup : JupResponses, pump : PumpResponses]

\* A few fan-outs, for the runs that explore the interleavings of invocations:
\* every query succeeds (the supplies of the README example, the vault holding
\* the L2 supply), the same with five more tokens on L2 and an unreadable
\* vault, and every query timing out.
FeeResult(total, gas, compute) ==
    CHOOSE e \in FeeConfigResults :
        e.response = [kind |-> "data", data |-> FeeConfigImage(1, total, gas, compute)]
FeeThrow == CHOOSE e \in FeeConfigResults : e.response = Throw

\* Every query answers; the vault holds what L2 has minted.
AllAnswer ==
    [l1 |-> [kind |-> "ok", supply |-> 497000000], l2 |-> [kind |-> "ok", total |-> 503000000],
     bridge |-> [kind |-> "ok", amount |-> 503000000],
     feeConfig |-> FeeResult(LAMPORTS_PER_MYTH, LAMPORTS_PER_MYTH, 0),
     foundation |-> [kind |-> "ok", balance |-> 3]]

\* L2 has five more than L1 lacks, the vault account does not parse, more is burned.
VaultUnparsed ==
    [l1 |-> [kind |-> "ok", supply |-> 497000000], l2 |-> [kind |-> "ok", total |-> 503000005],
     bridge |-> [kind |-> "unparsed"],
     feeConfig |-> FeeResult(2 * LAMPORTS_PER_MYTH, LAMPORTS_PER_MYTH, LAMPORTS_PER_MYTH),
     foundation |-> [kind |-> "ok", balance |-> 3]]

\* Every query fails.
NoneAnswers ==
    [l1 |-> Throw, l2 |-> Throw, bridge |-> Throw, feeConfig |-> FeeThrow, foundation |-> Failed]

SomeChainInputs == { AllAnswer, VaultUnparsed, NoneAnswers }

SomePriceInputs ==
    { [dex |-> [kind |-> "fail"], jup |-> [kind |-> "fail"], pump |-> [kind |-> "fail"]],
      [dex |-> [kind |-> "ok", priceUsd |-> Num(1), priceNative |-> Num(1),
                marketCap |-> Num(7), volume |-> Num(3), priceChange |-> Num(1),
                fdv |-> Num(9), liquidity |-> Num(4)],
       jup |-> [kind |-> "ok", price |-> Num(2)], pump |-> [kind |-> "fail"]] }

LowestIdle == CHOOSE p \in Procs : pc[p] = "idle" /\ \A q \in Procs : pc[q] = "idle" => p <= q

Begin(p) ==
    /\ pc' = [pc EXCEPT ![p] = "fetching"]
    /\ inv' = [inv EXCEPT ![p] = cycles + 1]
    /\ cycles' = cycles + 1
    /\ UNCHANGED << now, errors >>

\* index.js:770-781: the listen callback loads the history, starts the first
\* invocation (which runs up to its first await) and arms the timer.
Start ==
    /\ ~started
    /\ started' = TRUE
    /\ LET loaded == loadBurnHistory(historyFile, burnHistory, last24hBurnSnapshot, clock)
       IN  /\ burnHistory' = loaded[1]
           /\ last24hBurnSnapshot' = loaded[2]
    /\ Begin(1)
    /\ UNCHANGED << snapshotVars, pricedBy, last7dBurnSnapshot, validatorVars, historyFile,
                    clock, fault, savedBy, priceResults, chainResults, response, decVars >>

\* index.js:780: a timer tick invokes updateSupplyData, whether or not an
\* earlier invocation is still suspended.  index.js:466-472: the invocation
\* issues its five queries and suspends.  A run explores maxCycles invocations,
\* at most maxInFlight of them suspended at once.
Tick(maxCycles, maxInFlight) ==
    /\ started
    /\ cycles < maxCycles
    /\ Cardinality({p \in Procs : pc[p] # "idle"}) < maxInFlight
    /\ Begin(LowestIdle)
    /\ UNCHANGED << snapshotVars, pricedBy, historyVars, validatorVars, historyFile, clock,
                    started, fault, savedBy, priceResults, chainResults, response, decVars >>

Finish(p) ==
    /\ pc' = [pc EXCEPT ![p] = "idle"]
    /\ inv' = [inv EXCEPT ![p] = 0]
    /\ now' = [now EXCEPT ![p] = 0]
    /\ errors' = [errors EXCEPT ![p] = <<>>]

\* index.js:466-547: Promise.all has settled; the invocation runs from line 474
\* to its next await: fetchValidators (line 537) when the cache is due,
\* otherwise the fetches of updatePrice (line 318).
Reconcile(p, in, saveOk) ==
    /\ pc[p] = "fetching"
    /\ saveOk \/ clock - lastValidatorFetch <= VALIDATOR_POLL_MS   \* saveOk matters only at line 546
    /\ LET l1Result == fetchL1Supply(in.l1)
           l2Result == fetchL2Supply(in.l2)
           bridgeResult == fetchBridgeLocked(in.bridge)
           feeConfigResult == in.feeConfig.result
           foundationResult == fetchFoundationBalance(in.foundation)
           results == << l1Result, l2Result, bridgeResult, feeConfigResult, foundationResult >>
       IN  IF \E i \in 1..5 : results[i] = REJECTED
           THEN \* Promise.all rejects: the invocation ends at line 466
                /\ fault' = TRUE
                /\ chainResults' = results
                /\ Finish(p)
                /\ UNCHANGED << snapshotVars, historyVars, historyFile, savedBy >>
           ELSE LET snapshot == ReconciledSnapshot(supplyData, l1Result, l2Result, bridgeResult,
                                                   feeConfigResult, foundationResult, clock)
                    history == PushHistory(burnHistory, HistoryEntry(clock, snapshot.feeConfig))
                IN  /\ supplyData' = snapshot
                    /\ builtBy' = inv[p]
                    /\ chainResults' = results
                    /\ burnHistory' = history
                    /\ last24hBurnSnapshot' =
                           WindowSnapshot(last24hBurnSnapshot, history, clock - WINDOW_24H)
                    /\ last7dBurnSnapshot' =
                           WindowSnapshot(last7dBurnSnapshot, history, clock - WINDOW_7D)
                    /\ now' = [now EXCEPT ![p] = clock]
                    /\ errors' = [errors EXCEPT ![p] = Warnings(results)]
                    /\ IF clock - lastValidatorFetch > VALIDATOR_POLL_MS
                       THEN /\ pc' = [pc EXCEPT ![p] = "validators"]
                            /\ UNCHANGED << historyFile, savedBy >>
                       ELSE /\ pc' = [pc EXCEPT ![p] = ResumeAfterSave(history, saveOk)]
                            /\ historyFile' = SaveIfDue(historyFile, history, saveOk)
                            /\ savedBy' = SavedIfDue(savedBy, history, inv[p])
                    /\ UNCHANGED << inv, fault >>
    /\ UNCHANGED << pricedBy, validatorVars, clock, started, cycles, priceResults, response,
                    decVars >>

\* index.js:537-550: fetchValidators has settled; the cache and the history
\* file are updated and updatePrice issues its three fetches.
ValidatorsDone(p, r, saveOk) ==
    /\ pc[p] = "validators"
    /\ saveOk \/ Len(burnHistory) % SAVE_EVERY = 0   \* saveOk matters only at line 546
    /\ validatorCache' = (LET validators == r.result
                          IN  IF validators # NULL THEN validators.array ELSE validatorCache)
    /\ lastValidatorFetch' = now[p]
    /\ historyFile' = SaveIfDue(historyFile, burnHistory, saveOk)
    /\ savedBy' = SavedIfDue(savedBy, burnHistory, inv[p])
    /\ pc' = [pc EXCEPT ![p] = ResumeAfterSave(burnHistory, saveOk)]
    /\ UNCHANGED << snapshotVars, pricedBy, historyVars, clock, started, cycles, inv, now,
                    errors, fault, priceResults, chainResults, response, decVars >>

\* index.js:318-355, 552-559: the three price fetches have settled; updatePrice
\* assigns supplyData.price on the current object and the invocation ends.
PriceDone(p, in) ==
    /\ pc[p] = "price"
    /\ LET dexData == fetchDexScreenerPrice(in.dex)
           jupData == fetchJupiterPrice(in.jup)
           pumpData == fetchPumpFunData(in.pump)
       IN  /\ priceResults' = [dexData |-> dexData, jupData |-> jupData, pumpData |-> pumpData]
           /\ supplyData' = [supplyData EXCEPT !.price =
                  MergePrice(supplyData.price, dexData, jupData, pumpData, clock)]
    /\ pricedBy' = inv[p]
    /\ Finish(p)
    /\ UNCHANGED << builtBy, historyVars, validatorVars, historyFile, clock, started, cycles,
                    fault, savedBy, chainResults, response, decVars >>

\* index.js:264-266, 288-290, 301-303: the fetches of updatePrice and their
\* res.json() carry no timeout (unlike the chain queries, each wrapped in
\* withTimeout): a provider that accepts the request and never completes its
\* answer leaves the Promise.all of line 318 pending, and the code has armed no
\* timer that could resume the invocation.
PriceHangs(p) ==
    /\ pc[p] = "price"
    /\ pc' = [pc EXCEPT ![p] = "hung"]
    /\ UNCHANGED << snapshotVars, pricedBy, historyVars, validatorVars, historyFile, clock,
                    started, cycles, inv, now, errors, fault, savedBy, priceResults, chainResults,
                    response, decVars >>

\* Time passes.
Advance ==
    /\ clock < StartClock + MaxElapsed
    /\ clock' = clock + 1
    /\ UNCHANGED << snapshotVars, pricedBy, historyVars, validatorVars, historyFile, started,
                    cycles, procVars, fault, savedBy, priceResults, chainResults, response, decVars >>

\* ---------------------------------------------------------------- API
\* x / 1e9 (index.js:637, 641-642, 707-712), kept as an exact fraction
Lamports(x) == [num |-> x, den |-> LAMPORTS_PER_MYTH]

\* GET /api/supply with the 24h rate computed from the 7d snapshot.
ApiSupply_WeekWindow(data, snap24, snap7) ==
    LET fc == data.feeConfig
        totalBurnedLamports == IF fc # NULL THEN fc.totalBurned ELSE 0
    IN  [totalSupply |-> TOTAL_SUPPLY,
         burned |-> Lamports(totalBurnedLamports),
         circulating |-> [whole |-> TOTAL_SUPPLY, minus |-> Lamports(totalBurnedLamports)],
         burnRate24h |-> Lamports(totalBurnedLamports - snap7.totalBurned),
         burnRateWeek |-> Lamports(totalBurnedLamports - snap7.totalBurned),
         decimals |-> MYTH_DECIMALS,
         lastUpdated |-> data.lastUpdated]

\* index.js:634-653: the body of GET /api/supply
ApiSupply(data, snap24, snap7) ==
    LET fc == data.feeConfig
        totalBurnedLamports == IF fc # NULL THEN fc.totalBurned ELSE 0
    IN  [totalSupply |-> TOTAL_SUPPLY,
         burned |-> Lamports(totalBurnedLamports),
         circulating |-> [whole |-> TOTAL_SUPPLY, minus |-> Lamports(totalBurnedLamports)],
         burnRate24h |-> Lamports(totalBurnedLamports - snap24.totalBurned),
         burnRateWeek |-> Lamports(totalBurnedLamports - snap7.totalBurned),
         decimals |-> MYTH_DECIMALS,
         lastUpdated |-> data.lastUpdated]

\* req.query of GET /api/supply/history: the period string, and the limit
\* parameter, which is absent (or empty), a decimal integer string, or a
\* string parseInt cannot read.
HistoryPeriods == { "absent", "1h", "6h", "24h", "7d" }
HistoryLimits ==
    { [kind |-> "absent"], [kind |-> "text"] } \cup
    { [kind |-> "int", value |-> n] : n \in -1..(MAX_HISTORY_ENTRIES + 1) }
HistoryQueries == [period : HistoryPeriods, limit : HistoryLimits]

\* index.js:692: Math.min(parseInt(req.query.limit || "500", 10), MAX_HISTORY_ENTRIES);
\* parseInt of unreadable text is NaN, and Math.min with NaN is NaN
ParsedLimit(limit) ==
    CASE limit.kind = "absent" -> Num(Min(DEFAULT_LIMIT, MAX_HISTORY_ENTRIES))
      [] limit.kind = "int" -> Num(Min(limit.value, MAX_HISTORY_ENTRIES))
      [] limit.kind = "text" -> NAN

\* index.js:694-699: periodMs[period] || periodMs["24h"]
PeriodMs(period) ==
    CASE period = "1h" -> WINDOW_1H
      [] period = "6h" -> WINDOW_6H
      [] OTHER -> WINDOW_24H

\* Array.prototype.slice(start): NaN and -0 are index 0, a negative start
\* counts from the end, and the start is clamped to the array
JsSlice(arr, start) ==
    LET rel == IF start = NAN THEN 0 ELSE start.num
        from == IF rel < 0 THEN (IF Len(arr) + rel < 0 THEN 0 ELSE Len(arr) + rel)
                ELSE Min(rel, Len(arr))
    IN  SubSeq(arr, from + 1, Len(arr))

\* -limit of index.js:703
JsNegate(x) == IF x = NAN THEN NAN ELSE Num(-x.num)

\* index.js:704-712: one entry of the response
ApiHistoryEntry(e) ==
    [timestamp |-> [iso |-> e.timestamp],
     totalBurned |-> Lamports(e.totalBurned),
     gasBurned |-> Lamports(e.gasBurned),
     computeBurned |-> Lamports(e.computeBurned),
     inferenceBurned |-> Lamports(e.inferenceBurned),
     bridgeBurned |-> Lamports(e.bridgeBurned),
     subnetBurned |-> Lamports(e.subnetBurned)]

\* index.js:688-718: the body of GET /api/supply/history
ApiHistory(query, history, t) ==
    LET period == IF query.period = "absent" THEN "24h" ELSE query.period
        limit == ParsedLimit(query.limit)
        cutoff == t - PeriodMs(period)
        inPeriod == SelectSeq(history, LAMBDA e : e.timestamp >= cutoff)
        sliced == JsSlice(inPeriod, JsNegate(limit))
        filtered == [i \in 1..Len(sliced) |-> ApiHistoryEntry(sliced[i])]
    IN  [period |-> period, entries |-> Len(filtered), history |-> filtered]

\* No API request has been answered yet.
NoResponse == [route |-> "none"]

\* index.js:634: a GET /api/supply request is answered
GetApiSupply ==
    /\ started
    /\ response' = [route |-> "supply",
                    body |-> ApiSupply(supplyData, last24hBurnSnapshot, last7dBurnSnapshot)]
    /\ UNCHANGED << snapshotVars, pricedBy, historyVars, validatorVars, historyFile, clock,
                    started, cycles, procVars, fault, savedBy, priceResults, chainResults, decVars >>

\* index.js:688: a GET /api/supply/history request is answered
GetApiHistory(query) ==
    /\ started
    /\ response' = [route |-> "history", query |-> query, at |-> clock,
                    body |-> ApiHistory(query, burnHistory, clock)]
    /\ UNCHANGED << snapshotVars, pricedBy, historyVars, validatorVars, historyFile, clock,
                    started, cycles, procVars, fault, savedBy, priceResults, chainResults, decVars >>

NoDecode == [schema |-> "none", data |-> NoData]

\* The state after the module has been evaluated (index.js:195-225) and
\* before the listen callback runs.
Init ==
    /\ supplyData = InitialSupplyData
    /\ builtBy = 0
    /\ pricedBy = 0
    /\ burnHistory = <<>>
    /\ last24hBurnSnapshot = [timestamp |-> StartClock, totalBurned |-> 0]
    /\ last7dBurnSnapshot = [timestamp |-> StartClock, totalBurned |-> 0]
    /\ validatorCache = <<>>
    /\ lastValidatorFetch = 0
    /\ historyFile \in HistoryFiles
    /\ clock = StartClock
    /\ started = FALSE
    /\ cycles = 0
    /\ pc = [p \in Procs |-> "idle"]
    /\ inv = [p \in Procs |-> 0]
    /\ now = [p \in Procs |-> 0]
    /\ errors = [p \in Procs |-> <<>>]
    /\ fault = FALSE
    /\ priceResults = [dexData |-> NULL, jupData |-> NULL, pumpData |-> NULL]
    /\ chainResults = <<>>
    /\ response = NoResponse
    /\ savedBy = 0
    /\ decInput = NoDecode
    /\ decOutput = NULL

\* The whole program: overlapping invocations, a few inputs per step.
Next ==
    \/ Start
    \/ Tick(MaxCycles, MaxOverlap)
    \/ \E p \in Procs, in \in SomeChainInputs, saveOk \in BOOLEAN : Reconcile(p, in, saveOk)
    \/ \E p \in Procs, r \in ValidatorResults, saveOk \in BOOLEAN : ValidatorsDone(p, r, saveOk)
    \/ \E p \in Procs, in \in SomePriceInputs : PriceDone(p, in)
    \/ Advance

Spec == Init /\ [][Next]_vars

NoPriceInputs ==
    { [dex |-> [kind |-> "fail"], jup |-> [kind |-> "fail"], pump |-> [kind |-> "fail"]] }

\* The state after the module has been evaluated, with no history file on disk.
InitNoFile == Init /\ historyFile = [kind |-> "missing"]

\* Every combination of chain-query outcomes, one invocation at a time; the
\* price providers all failing.
NextFailures ==
    \/ Start
    \/ Tick(MaxCycles, 1)
    \/ \E p \in Procs, in \in ChainInputs, saveOk \in BOOLEAN : Reconcile(p, in, saveOk)
    \/ \E p \in Procs, r \in ValidatorResults, saveOk \in BOOLEAN : ValidatorsDone(p, r, saveOk)
    \/ \E p \in Procs, in \in NoPriceInputs : PriceDone(p, in)

SpecFailures == InitNoFile /\ [][NextFailures]_vars

\* Every combination of price-provider outcomes, one invocation at a time; the
\* chain queries all answering.
NextPrice ==
    \/ Start
    \/ Tick(MaxCycles, 1)
    \/ \E p \in Procs, saveOk \in BOOLEAN : Reconcile(p, AllAnswer, saveOk)
    \/ \E p \in Procs, r \in ValidatorResults, saveOk \in BOOLEAN : ValidatorsDone(p, r, saveOk)
    \/ \E p \in Procs, in \in PriceInputs : PriceDone(p, in)
    \/ Advance

SpecPrice == InitNoFile /\ [][NextPrice]_vars

\* Enough invocations, one at a time, to append MAX_HISTORY_ENTRIES + 5 entries,
\* from every history file; the price providers all failing.
NextHistory ==
    \/ Start
    \/ Tick(MAX_HISTORY_ENTRIES + 5, 1)
    \/ \E p \in Procs, in \in { AllAnswer, VaultUnparsed }, saveOk \in BOOLEAN :
           Reconcile(p, in, saveOk)
    \/ \E p \in Procs, r \in ValidatorResults, saveOk \in BOOLEAN : ValidatorsDone(p, r, saveOk)
    \/ \E p \in Procs, in \in NoPriceInputs : PriceDone(p, in)
    \/ Advance

SpecHistory == Init /\ [][NextHistory]_vars

\* Fan-outs around the drift threshold: the L2 supply 0, 1 or 2 tokens above
\* the vault balance, and the vault unreadable.
DriftInputs ==
    { [AllAnswer EXCEPT !.l2 = [kind |-> "ok", total |-> 503000000 + d], !.bridge = b] :
          d \in 0..2, b \in { AllAnswer.bridge, [kind |-> "unparsed"] } }

\* One invocation at a time with the fan-outs around the drift threshold; the
\* price providers all failing.
NextDrift ==
    \/ Start
    \/ Tick(MaxCycles, 1)
    \/ \E p \in Procs, in \in DriftInputs, saveOk \in BOOLEAN : Reconcile(p, in, saveOk)
    \/ \E p \in Procs, r \in ValidatorResults, saveOk \in BOOLEAN : ValidatorsDone(p, r, saveOk)
    \/ \E p \in Procs, in \in NoPriceInputs : PriceDone(p, in)
    \/ Advance

SpecDrift == InitNoFile /\ [][NextDrift]_vars

\* The whole program with price providers that may never answer.
NextHang ==
    \/ Start
    \/ Tick(MaxCycles, MaxOverlap)
    \/ \E p \in Procs, in \in SomeChainInputs, saveOk \in BOOLEAN : Reconcile(p, in, saveOk)
    \/ \E p \in Procs, r \in ValidatorResults, saveOk \in BOOLEAN : ValidatorsDone(p, r, saveOk)
    \/ \E p \in Procs, in \in SomePriceInputs : PriceDone(p, in)
    \/ \E p \in Procs : PriceHangs(p)

SpecHang == InitNoFile /\ [][NextHang]_vars

\* The fee-config query answering with a cumulative burn of 100,000 base units.
BurnedExample ==
    LET r == [kind |-> "data", data |-> FeeConfigImage(1, 100000, 100000, 0)]
    IN  [AllAnswer EXCEPT !.feeConfig = [response |-> r, result |-> fetchFeeConfig(r)]]

\* GET /api/supply served between the steps of the invocations, one invocation
\* at a time, from every history file; the price providers all failing.
NextSupplyApi ==
    \/ Start
    \/ Tick(MaxCycles, 1)
    \/ \E p \in Procs, in \in { AllAnswer, BurnedExample, NoneAnswers }, saveOk \in BOOLEAN :
           Reconcile(p, in, saveOk)
    \/ \E p \in Procs, r \in ValidatorResults, saveOk \in BOOLEAN : ValidatorsDone(p, r, saveOk)
    \/ \E p \in Procs, in \in NoPriceInputs : PriceDone(p, in)
    \/ Advance
    \/ GetApiSupply

SpecSupplyApi == Init /\ [][NextSupplyApi]_vars

\* GET /api/supply/history served between the steps of the invocations, with
\* every query; the chain queries all answering, the price providers all failing.
NextHistoryApi ==
    \/ Start
    \/ Tick(MaxCycles, 1)
    \/ \E p \in Procs, saveOk \in BOOLEAN : Reconcile(p, AllAnswer, saveOk)
    \/ \E p \in Procs, r \in ValidatorResults, saveOk \in BOOLEAN : ValidatorsDone(p, r, saveOk)
    \/ \E p \in Procs, in \in NoPriceInputs : PriceDone(p, in)
    \/ Advance
    \/ \E query \in HistoryQueries : GetApiHistory(query)

SpecHistoryApi == Init /\ [][NextHistoryApi]_vars

\* ---------------------------------------------------------------- decoder harness
\* The decoders are pure: the harness applies them to buffers of every length
\* up to the schema's length plus MaxExtraBytes.

MaxExtraBytes == 1

Prefix(buf, n) == IF n <= Len(buf) THEN SubSeq(buf, 1, n) ELSE buf \o Zeros(n - Len(buf))

SchemaLength(schema) == IF schema = "feeConfig" THEN FEE_CONFIG_LEN ELSE VALIDATOR_LEN

DecodeImages(schema) ==
    IF schema = "feeConfig"
    THEN { FeeConfigImage(1, LAMPORTS_PER_MYTH, LAMPORTS_PER_MYTH, 0), FeeConfigImage(0, 0, 0, 0) }
    ELSE { ValidatorImage(1, 5, 1), ValidatorImage(2, 0, 0) }

\* Whole accounts, decoded at the schema's length and beyond.
WholeImages(schema) ==
    IF schema = "feeConfig"
    THEN { FeeConfigLayout(f) : f \in { DistinctFeeConfig, BurnedFiveBillion, HugeCounters } }
    ELSE { ValidatorLayout(f) : f \in { DistinctValidator, HugeValidator } }

\* Bytes that follow an account's image in a longer buffer.
Extended(image, n) == image \o [i \in 1..n |-> 200 + i]

DecodeBuffers(schema) ==
    { NoData }
    \cup { Prefix(image, n) : image \in DecodeImages(schema),
                              n \in 0..(SchemaLength(schema) + MaxExtraBytes) }
    \cup { Extended(image, n) : image \in WholeImages(schema), n \in 0..MaxExtraBytes }

\* One call of a decoder.  The decoders keep no state, so a run makes one call.
Decode(schema, data) ==
    /\ decInput = NoDecode
    /\ decInput' = [schema |-> schema, data |-> data]
    /\ decOutput' = IF schema = "feeConfig" THEN deserializeFeeConfig(data)
                    ELSE deserializeValidatorFeeAccount(data)
    /\ UNCHANGED << snapshotVars, pricedBy, historyVars, validatorVars, historyFile, clock,
                    started, cycles, procVars, fault, savedBy, priceResults, chainResults, response >>

NextDecode ==
    \E schema \in {"feeConfig", "validator"} : \E data \in DecodeBuffers(schema) :
        Decode(schema, data)

SpecDecode == Init /\ [][NextDecode]_vars

\* ---------------------------------------------------------------- claims

\* The invocations that have run past their first await (line 474).
Reconciled == cycles - Cardinality({p \in Procs : pc[p] = "fetching"})

\* Invocation p resumes from Promise.all in this step.
Resumes(p) == pc[p] = "fetching" /\ pc'[p] # "fetching"

\* Invocation p's updatePrice completes in this step.
PriceCompletes(p) == pc[p] = "price" /\ pc'[p] = "idle"

LastK(seq, k) == [i \in 1..k |-> seq[Len(seq) - k + i]]

\* C1: in every snapshot published by updateSupplyData, circulatingSupply is
\* totalSupply minus the foundation balance, the bridge-locked amount and the
\* burned amount.
C1_CirculatingIdentity ==
    builtBy # 0 =>
        supplyData.circulatingSupply =
            supplyData.totalSupply
            - (IF IsNum(supplyData.foundationBalance) THEN supplyData.foundationBalance.num ELSE 0)
            - supplyData.l1.locked - supplyData.burned

\* C2: after every cycle the drift amount is |l1 supply + l2 supply - canonical
\* total|, and the status is drift_detected exactly when it exceeds 1.
C2_DriftIsLedgerParity ==
    builtBy # 0 =>
        LET parity == Abs(supplyData.l1.supply + supplyData.l2.supply - TOTAL_SUPPLY)
        IN  /\ supplyData.bridge.driftAmount = parity
            /\ supplyData.bridge.status = IF parity > 1 THEN "drift_detected" ELSE "synced"

\* C3: whatever the five chain queries settle to, the invocation that resumes
\* from them publishes a new snapshot object, appends exactly one history entry
\* (stamped with the current time) and does not reject.
C3_CycleAlwaysPublishes ==
    [][\A p \in Procs : Resumes(p) =>
          /\ fault' = FALSE
          /\ builtBy # inv[p] /\ builtBy' = inv[p]
          /\ supplyData'.lastUpdated = clock
          /\ Len(burnHistory') >= 1
          /\ LET entry == burnHistory'[Len(burnHistory')]
             IN  /\ entry.timestamp = clock
                 /\ burnHistory' = IF Len(burnHistory) < MAX_HISTORY_ENTRIES
                                   THEN Append(burnHistory, entry)
                                   ELSE Append(Tail(burnHistory), entry)]_vars

\* C3 witness: an invocation whose five queries all failed has published its
\* snapshot and its history entry.
C3_Witness ==
    \E p \in Procs :
        /\ pc[p] \in {"validators", "price"}
        /\ Len(errors[p]) = 5
        /\ builtBy = inv[p]
        /\ burnHistory[Len(burnHistory)].timestamp = now[p]

\* C4: in every state a reader can observe, the supply fields and the price
\* quote of the visible snapshot come from the same invocation, and the object
\* a reader holds is never changed after it was published.
C4_AtomicSnapshot ==
    [][/\ builtBy' = pricedBy'
       /\ builtBy' = builtBy => supplyData' = supplyData]_vars

\* C5: the history never holds more than MAX_HISTORY_ENTRIES entries; a load
\* leaves the last entries of the file, an append leaves the last entries of
\* the old history followed by the new entry, in order, and nothing else
\* changes the history; once MAX_HISTORY_ENTRIES entries have been appended the
\* history holds exactly that many.
C5_HistoryBounded ==
    [][/\ Len(burnHistory') <= MAX_HISTORY_ENTRIES
       /\ Len(burnHistory') >= Min(MAX_HISTORY_ENTRIES, Reconciled')
       /\ (~started /\ started' /\ historyFile.kind = "array") =>
              burnHistory' = LastK(historyFile.entries,
                                   Min(MAX_HISTORY_ENTRIES, Len(historyFile.entries)))
       /\ \A p \in Procs : Resumes(p) =>
              /\ Len(burnHistory') >= 1
              /\ burnHistory' = LastK(Append(burnHistory, burnHistory'[Len(burnHistory')]),
                                      Min(MAX_HISTORY_ENTRIES, Len(burnHistory) + 1))
       /\ burnHistory' # burnHistory =>
              (~started /\ started') \/ (\E p \in Procs : Resumes(p))]_vars

\* C5 witness: MAX_HISTORY_ENTRIES + 5 entries have been appended and the
\* history holds MAX_HISTORY_ENTRIES of them.
C5_Witness ==
    /\ Reconciled = MAX_HISTORY_ENTRIES + 5
    /\ Len(burnHistory) = MAX_HISTORY_ENTRIES

AllProvidersFailed(r) == r.dexData = NULL /\ r.jupData = NULL /\ r.pumpData = NULL

\* C6: an updatePrice in which all three providers failed leaves the stored
\* quote as it was, every field included.
C6_AllFailKeepsQuote ==
    [][\A p \in Procs : (PriceCompletes(p) /\ AllProvidersFailed(priceResults')) =>
          supplyData'.price = supplyData.price]_vars

\* C6 witness: all three providers failed in the second invocation and the
\* quote stored by the first is still there.
C6_Witness ==
    /\ pricedBy = 2
    /\ AllProvidersFailed(priceResults)
    /\ supplyData.price.usd # NULL
    /\ supplyData.price.source = "dexscreener"

\* C7: once the stored quote has a usd price, it never becomes null again.
C7_PriceNeverResets ==
    [][supplyData.price.usd # NULL => supplyData'.price.usd # NULL]_vars

HasPrice(data) == data # NULL /\ data.usd # NULL

\* C8: after an updatePrice, the usd price is DexScreener's when DexScreener
\* reported a price, otherwise Jupiter's when Jupiter reported one.
C8_PricePerField ==
    pricedBy # 0 =>
        /\ HasPrice(priceResults.dexData) =>
               supplyData.price.usd = priceResults.dexData.usd
        /\ (~HasPrice(priceResults.dexData) /\ HasPrice(priceResults.jupData)) =>
               supplyData.price.usd = priceResults.jupData.usd

\* updatePrice stored a quote (some provider had something to merge).
Merged(r) ==
    r.dexData # NULL \/ r.jupData # NULL \/ (r.pumpData # NULL /\ Truthy(r.pumpData.usd))

HasCap(data) == data # NULL /\ data.marketCap # NULL

\* C9: in a merged quote the market cap is DexScreener's or Jupiter's when one
\* of them has it and otherwise pump.fun's (null when pump.fun has none); and
\* when DexScreener has a price the merged price is DexScreener's.
C9_MarketCapCascade ==
    (pricedBy # 0 /\ Merged(priceResults)) =>
        LET r == priceResults
        IN  /\ supplyData.price.marketCap =
                   IF HasCap(r.dexData) THEN r.dexData.marketCap
                   ELSE IF HasCap(r.jupData) THEN r.jupData.marketCap
                   ELSE IF r.pumpData # NULL THEN r.pumpData.marketCap
                   ELSE NULL
            /\ HasPrice(r.dexData) => supplyData.price.usd = r.dexData.usd

\* C9 witness: DexScreener had a price and no market cap, pump.fun a market cap
\* and no price; the quote has DexScreener's price and pump.fun's market cap.
C9_Witness ==
    /\ pricedBy # 0
    /\ HasPrice(priceResults.dexData) /\ ~HasCap(priceResults.dexData)
    /\ HasCap(priceResults.pumpData) /\ ~Truthy(priceResults.pumpData.usd)
    /\ supplyData.price.usd = priceResults.dexData.usd
    /\ supplyData.price.marketCap = priceResults.pumpData.marketCap

\* C10: for both schemas, a buffer shorter than the schema's length (or no
\* buffer) decodes to the failure outcome, null: no record, whole or partial.
C10_ShortInputIsMalformed ==
    (decInput.schema # "none"
     /\ (decInput.data = NoData \/ Len(decInput.data) < SchemaLength(decInput.schema)))
        => decOutput = NULL

\* C10 witness: a fee-config buffer one byte short, its initialized flag set,
\* has been decoded.
C10_Witness ==
    /\ decInput.schema = "feeConfig"
    /\ Len(decInput.data) = FEE_CONFIG_LEN - 1
    /\ decInput.data[1] = 1
    /\ decOutput = NULL

\* A whole fee-config account is under decoding (235 bytes or more).
WholeFeeConfig ==
    decInput.schema = "feeConfig" /\ decInput.data # NoData
    /\ Len(decInput.data) >= FEE_CONFIG_LEN

\* The outcomes of decoding a fee-config buffer that is too short.
MalformedOutcomes ==
    { deserializeFeeConfig(Prefix(FeeConfigLayout(DistinctFeeConfig), n)) :
          n \in 0..(FEE_CONFIG_LEN - 1) }

\* C11: decoding a whole fee-config buffer whose initialized flag is 0 gives an
\* outcome that differs from every outcome of decoding a too-short buffer.
C11_UninitializedIsDistinct ==
    (WholeFeeConfig /\ decInput.data[1] = 0) => decOutput \notin MalformedOutcomes

Ones(n) == [i \in 1..n |-> "1"]

\* C12: a well-formed initialized fee-config buffer decodes to the fields at
\* their declared offsets, whatever follows byte 234: every field of an account
\* whose fields all differ is recovered, and an account with totalBurned =
\* 5,000,000,000 and no other counter decodes to exactly that.
C12_FeeConfigFieldOffsets ==
    \A n \in 0..MaxExtraBytes :
        /\ (decInput.schema = "feeConfig"
            /\ decInput.data = Extended(FeeConfigLayout(DistinctFeeConfig), n)) =>
               decOutput =
                   [isInitialized |-> TRUE,
                    admin |-> Ones(31) \o <<"2">>,
                    foundationWallet |-> Ones(31) \o <<"2", "1">>,
                    burnAddress |-> Ones(32),
                    mythMint |-> Ones(31) \o <<"z">>,
                    gasSplit |-> [validatorBps |-> 5000, foundationBps |-> 1000,
                                  burnBps |-> 4000],
                    computeSplit |-> [validatorBps |-> 1, foundationBps |-> 2, burnBps |-> 3],
                    inferenceSplit |-> [validatorBps |-> 4, foundationBps |-> 5, burnBps |-> 6],
                    bridgeSplit |-> [validatorBps |-> 7, foundationBps |-> 8, burnBps |-> 9],
                    currentEpoch |-> 11, totalBurned |-> 12, totalDistributed |-> 13,
                    totalFoundationCollected |-> 14, isPaused |-> TRUE, bump |-> 254,
                    gasBurned |-> 15, computeBurned |-> 16, inferenceBurned |-> 17,
                    bridgeBurned |-> 18, subnetBurned |-> 19, totalFoundationBurned |-> 20]
        /\ (decInput.schema = "feeConfig"
            /\ decInput.data = Extended(FeeConfigLayout(BurnedFiveBillion), n)) =>
               /\ decOutput # NULL
               /\ decOutput.totalBurned = [wide |-> FiveBillion]
               /\ decOutput.currentEpoch = 0 /\ decOutput.totalDistributed = 0
               /\ decOutput.totalFoundationCollected = 0 /\ decOutput.gasBurned = 0
               /\ decOutput.computeBurned = 0 /\ decOutput.inferenceBurned = 0
               /\ decOutput.bridgeBurned = 0 /\ decOutput.subnetBurned = 0
               /\ decOutput.totalFoundationBurned = 0

\* C12 witness: the account with totalBurned = 5,000,000,000, followed by a
\* stray byte, has been decoded to that amount.
C12_Witness ==
    /\ decInput.schema = "feeConfig"
    /\ decInput.data = Extended(FeeConfigLayout(BurnedFiveBillion), 1)
    /\ decOutput.totalBurned = [wide |-> FiveBillion]
    /\ decOutput.gasBurned = 0

\* C13: a validator buffer decodes to the fields at their declared offsets
\* (address 0-31, stakeAmount 32-39, aiCapable 40, rewardMultiplier 41-42,
\* pendingRewards 43-50, totalClaimed 51-58, registeredAt 59-66, isActive 67,
\* bump 68), whatever follows byte 68.
C13_ValidatorFieldOffsets ==
    \A n \in 0..MaxExtraBytes :
        (decInput.schema = "validator"
         /\ decInput.data = Extended(ValidatorLayout(DistinctValidator), n)) =>
            decOutput = [validator |-> Ones(31) \o <<"3">>, stakeAmount |-> 5,
                         aiCapable |-> TRUE, rewardMultiplier |-> 100,
                         pendingRewards |-> 7, totalClaimed |-> 9,
                         registeredAt |-> 1700000000, isActive |-> TRUE, bump |-> 255]

\* C13 witness: the validator account whose fields all differ has been decoded.
C13_Witness ==
    /\ decInput.schema = "validator"
    /\ decInput.data = ValidatorLayout(DistinctValidator)
    /\ decOutput.pendingRewards = 7
    /\ decOutput.totalClaimed = 9

\* The integer that eight little-endian bytes encode, with no conversion.
Exact64(b) ==
    IF AllZero(SubSeq(b, 5, 8)) /\ b[4] < 128 THEN LeValue(SubSeq(b, 1, 4)) ELSE [wide |-> b]

EncodedAt(offset) == Exact64(Slice(decInput.data, offset, 8))

\* C14: every unsigned 8-byte counter in a record the decoders return equals
\* the encoded integer exactly (a value the host number cannot hold is reported,
\* not returned rounded).
C14_NoSilentRounding ==
    /\ (WholeFeeConfig /\ decOutput # NULL) =>
           /\ decOutput.currentEpoch = EncodedAt(153)
           /\ decOutput.totalBurned = EncodedAt(161)
           /\ decOutput.totalDistributed = EncodedAt(169)
           /\ decOutput.totalFoundationCollected = EncodedAt(177)
           /\ decOutput.gasBurned = EncodedAt(187)
           /\ decOutput.computeBurned = EncodedAt(195)
           /\ decOutput.inferenceBurned = EncodedAt(203)
           /\ decOutput.bridgeBurned = EncodedAt(211)
           /\ decOutput.subnetBurned = EncodedAt(219)
           /\ decOutput.totalFoundationBurned = EncodedAt(227)
    /\ (decInput.schema = "validator" /\ decOutput # NULL) =>
           /\ decOutput.stakeAmount = EncodedAt(32)
           /\ decOutput.pendingRewards = EncodedAt(43)
           /\ decOutput.totalClaimed = EncodedAt(51)

\* C15: when a chain query of a cycle fails, the field of the new snapshot that
\* comes from that source keeps its value from the previous cycle (ledger-2
\* supply, bridge-locked amount, fee config and burned amount, foundation
\* balance).
C15_FailureKeepsCached ==
    [][\A p \in Procs : (Resumes(p) /\ builtBy # 0) =>
          /\ chainResults'[2].error # "" => supplyData'.l2.supply = supplyData.l2.supply
          /\ chainResults'[3].error # "" => supplyData'.l1.locked = supplyData.l1.locked
          /\ chainResults'[4].error # "" =>
                 /\ supplyData'.feeConfig = supplyData.feeConfig
                 /\ supplyData'.burned = supplyData.burned
          /\ chainResults'[5].error # "" =>
                 supplyData'.foundationBalance = supplyData.foundationBalance]_vars

\* C16: the snapshot's ledger-1 supply is the queried mint supply when the query
\* answered with a positive value, and otherwise the canonical total minus the
\* ledger-2 supply of the same snapshot.
C16_L1FallbackIsComplement ==
    [][\A p \in Procs : Resumes(p) =>
          LET l1Result == chainResults'[1]
              measured == l1Result.error = "" /\ l1Result.supply > 0
          IN  supplyData'.l1.supply =
                  IF measured THEN l1Result.supply
                  ELSE TOTAL_SUPPLY - supplyData'.l2.supply]_vars

\* C17: a snapshot whose ledger-1 supply was inferred differs from the snapshot
\* the same cycle publishes when the ledger-1 query answers with that very
\* number.
C17_InferredIsMarked ==
    [][\A p \in Procs : (Resumes(p) /\ chainResults'[1].error # "") =>
          supplyData' #
              ReconciledSnapshot(supplyData,
                                 fetchL1Supply([kind |-> "ok",
                                                supply |-> supplyData'.l1.supply]),
                                 chainResults'[2], chainResults'[3], chainResults'[4],
                                 chainResults'[5], clock)]_vars

\* A step that answers a GET /api/supply request.
AnswersSupply == response' # response /\ response'.route = "supply"

\* C18: once a cycle has reconciled, the 24-hour burn rate reported by
\* GET /api/supply is the cumulative burned counter of the current (latest)
\* history entry minus that of the window snapshot entry, the oldest retained
\* entry no older than 24 hours at the latest cycle (in base units over 1e9).
C18_BurnRateIsWindowDifference ==
    [][(AnswersSupply /\ builtBy # 0 /\ burnHistory # <<>>) =>
          LET current == burnHistory[Len(burnHistory)]
              i == FindFrom(burnHistory, current.timestamp - WINDOW_24H, 1)
          IN  response'.body.burnRate24h =
                  Lamports(current.totalBurned - burnHistory[i].totalBurned)]_vars

\* The example: an entry 24 hours old with 80,000 burned, the current entry with
\* 100,000, and a reported rate of 20,000.
C18_Witness ==
    /\ response.route = "supply"
    /\ Len(burnHistory) = 2
    /\ burnHistory[1].timestamp = clock - WINDOW_24H
    /\ burnHistory[1].totalBurned = 80000
    /\ burnHistory[2].timestamp = clock
    /\ burnHistory[2].totalBurned = 100000
    /\ response.body.burnRate24h = Lamports(20000)

\* A step that answers a GET /api/supply/history request with a limit that is
\* absent or a non-negative integer.
AnswersHistory ==
    /\ response' # response
    /\ response'.route = "history"
    /\ response'.query.limit.kind = "int" => response'.query.limit.value >= 0
    /\ response'.query.limit.kind # "text"

\* The limit a history query asks for: its own, or the default, capped at the
\* number of retained entries.
RequestedLimit(query) ==
    Min(IF query.limit.kind = "absent" THEN DEFAULT_LIMIT ELSE query.limit.value,
        MAX_HISTORY_ENTRIES)

\* C19: a history query returns the retained entries with timestamp at or
\* after now minus the period, restricted to the most recent `limit` of them
\* in their original order, and never more than `limit` entries, limit 0
\* included.
C19_HistoryQueryClipped ==
    [][AnswersHistory =>
          LET query == response'.query
              limit == RequestedLimit(query)
              cutoff == clock - (CASE query.period = "1h" -> WINDOW_1H
                                   [] query.period = "6h" -> WINDOW_6H
                                   [] OTHER -> WINDOW_24H)
              retained == SelectSeq(burnHistory, LAMBDA e : e.timestamp >= cutoff)
              recent == LastK(retained, Min(limit, Len(retained)))
          IN  /\ Len(response'.body.history) <= limit
              /\ response'.body.entries = Len(response'.body.history)
              /\ response'.body.history = [i \in 1..Len(recent) |-> ApiHistoryEntry(recent[i])]]_vars

\* The timeouts and failures that resume invocation p when no source answers:
\* its chain queries all time out, its validator query times out, or its
\* price fetches all fail.
Resumable(p) ==
    \/ \E saveOk \in BOOLEAN : Reconcile(p, NoneAnswers, saveOk)
    \/ \E saveOk \in BOOLEAN : ValidatorsDone(p, [response |-> Throw, result |-> NULL], saveOk)
    \/ \E in \in NoPriceInputs : PriceDone(p, in)

\* C20: every remote query is bounded by a timeout, so whatever the sources
\* do, a started cycle that has not finished always has a pending event (an
\* answer or a timeout) that resumes it.
C20_EveryCycleCanFinish ==
    \A p \in Procs : pc[p] # "idle" => ENABLED Resumable(p)

\* The invocations of updateSupplyData that have started and not finished.
InProgress == {p \in Procs : pc[p] # "idle"}

\* C21: at most one reconciliation cycle is in progress at any time: a timer
\* tick never starts updateSupplyData while an earlier invocation is unfinished.
C21_SingleCycleInProgress ==
    Cardinality(InProgress) <= 1

\* The chain sources of one fan-out that failed: the query timed out or
\* threw, or the account it read could not be used.
FailedChainSources(in) ==
    {s \in {"l1", "l2", "bridge", "foundation"} : in[s].kind # "ok"}
        \cup (IF in.feeConfig.result.error # "" THEN {"feeConfig"} ELSE {})

\* The price providers of one updatePrice that failed.
FailedPriceSources(in) == {s \in {"dex", "jup", "pump"} : in[s].kind = "fail"}

\* C22: every individual source failure of a cycle (a failed or timed-out
\* chain query, an unreadable bridge vault account, a failed validator scan, a
\* failed price provider) has its entry in that cycle's warnings list: the
\* list is at least as long as the failures the cycle has met at each step.
C22_EveryFailureIsWarned ==
    [][\A p \in Procs :
          /\ \A in \in SomeChainInputs, saveOk \in BOOLEAN :
                 (Reconcile(p, in, saveOk) /\ ~fault') =>
                     Len(errors'[p]) >= Cardinality(FailedChainSources(in))
          /\ \A r \in ValidatorResults, saveOk \in BOOLEAN :
                 (ValidatorsDone(p, r, saveOk) /\ r.result = NULL) => Len(errors'[p]) >= 1
          /\ \A in \in SomePriceInputs :
                 PriceDone(p, in) => Len(errors[p]) >= Cardinality(FailedPriceSources(in))]_vars

\* The cumulative burn counter a snapshot was built from (0 before any).
BurnCounter(data) == IF data.feeConfig = NULL THEN 0 ELSE data.feeConfig.totalBurned

\* C23: when a cycle observes a cumulative burn counter lower than the one the
\* previous cycle observed, or computes a negative circulating supply, the
\* cycle still publishes (the negative value unclamped) and the anomaly shows
\* in the published snapshot's status or in the cycle's warnings.
C23_AnomalyIsSurfaced ==
    [][\A p \in Procs :
          (Resumes(p) /\ chainResults'[4].config # NULL) =>
              LET decreased == BurnCounter(supplyData') < BurnCounter(supplyData)
                  negative == supplyData'.circulatingSupply < 0
              IN  /\ builtBy' = inv[p]
                  /\ supplyData'.circulatingSupply = TOTAL_SUPPLY - supplyData'.burned
                  /\ (decreased \/ negative) =>
                         \/ supplyData'.bridge.status = "drift_detected"
                         \/ errors'[p] # <<>>]_vars

\* C24: in every reachable state, the initial one included, the snapshot's
\* bridge status is drift_detected exactly when its driftAmount exceeds 1 token
\* and synced otherwise, whatever the status was before.
C24_StatusFollowsDrift ==
    supplyData.bridge.status =
        IF supplyData.bridge.driftAmount > 1 THEN "drift_detected" ELSE "synced"

\* A second cycle has published a drift of exactly 1 token, status synced,
\* after a first cycle had been published.
C24_Witness ==
    /\ builtBy = 2
    /\ supplyData.bridge.driftAmount = 1
    /\ supplyData.bridge.status = "synced"

\* C25: within one cycle no snapshot write or history append happens before
\* every query of the cycle (chain queries, validator scan, price providers)
\* has settled: an invocation that writes the snapshot or the history when it
\* resumes has no query left to issue or to await.
C25_WritesAfterAllSettled ==
    [][\A p \in Procs :
          (Resumes(p) /\ (supplyData' # supplyData \/ burnHistory' # burnHistory)) =>
              pc'[p] = "idle"]_vars

\* The retained entries at or after a cutoff, and the earliest of them as a
\* window snapshot.
InWindow(arr, cutoff) == {i \in 1..Len(arr) : arr[i].timestamp >= cutoff}
EarliestIn(arr, cutoff) ==
    LET i == CHOOSE i \in InWindow(arr, cutoff) : \A j \in InWindow(arr, cutoff) : i <= j
    IN  [timestamp |-> arr[i].timestamp, totalBurned |-> arr[i].totalBurned]

\* C26: after every cycle each window snapshot (24h and 7d) is the timestamp
\* and totalBurned of the earliest retained history entry at or after now minus
\* the window; when every retained entry is inside the window that is the
\* oldest retained entry.
C26_WindowSnapshotIsEarliest ==
    [][\A p \in Procs : (Resumes(p) /\ ~fault') =>
          /\ last24hBurnSnapshot' = EarliestIn(burnHistory', clock - WINDOW_24H)
          /\ last7dBurnSnapshot' = EarliestIn(burnHistory', clock - WINDOW_7D)
          /\ \A w \in {WINDOW_24H, WINDOW_7D} :
                 InWindow(burnHistory', clock - w) = 1..Len(burnHistory') =>
                     EarliestIn(burnHistory', clock - w).timestamp = burnHistory'[1].timestamp]_vars

\* A cycle has run with an entry older than 24 hours still retained: the 24h
\* snapshot is a later entry, the 7d snapshot the oldest one.
C26_Witness ==
    /\ builtBy # 0
    /\ Len(burnHistory) = 2
    /\ burnHistory[1].timestamp < clock - WINDOW_24H
    /\ last24hBurnSnapshot.timestamp = burnHistory[2].timestamp
    /\ last7dBurnSnapshot.timestamp = burnHistory[1].timestamp

\* C27: history persistence is coalesced: once a cycle has written the history
\* file, the next write comes SAVE_EVERY cycles later, never on the following
\* cycle, whatever the length of the history, at full capacity included.
C27_SaveIsCoalesced ==
    [][(savedBy' # savedBy /\ savedBy # 0) => savedBy' >= savedBy + SAVE_EVERY]_vars

\* The step of the listen callback, which calls loadBurnHistory.
Loads == ~started /\ started'

\* C28: on startup loadBurnHistory replaces the in-memory history with the last
\* MAX_HISTORY_ENTRIES entries of the persisted array and re-derives both the
\* 24h and the 7d window snapshot from the loaded entries.
C28_LoadRederivesSnapshots ==
    [][(Loads /\ historyFile.kind = "array") =>
          LET entries == historyFile.entries
          IN  /\ burnHistory' = LastK(entries, Min(MAX_HISTORY_ENTRIES, Len(entries)))
              /\ InWindow(burnHistory', clock - WINDOW_24H) # {} =>
                     last24hBurnSnapshot' = EarliestIn(burnHistory', clock - WINDOW_24H)
              /\ InWindow(burnHistory', clock - WINDOW_7D) # {} =>
                     last7dBurnSnapshot' = EarliestIn(burnHistory', clock - WINDOW_7D)]_vars

\* C29: a cycle's append leaves every retained entry unchanged in content and
\* relative order; the entries that leave the store are its head, and they
\* leave only when the append would exceed MAX_HISTORY_ENTRIES.
C29_AppendKeepsEntries ==
    [][\A p \in Procs : (Resumes(p) /\ ~fault') =>
          LET evicted == Len(burnHistory) + 1 - Len(burnHistory')
          IN  /\ evicted >= 0
              /\ evicted > 0 => Len(burnHistory) + 1 > MAX_HISTORY_ENTRIES
              /\ \A i \in (evicted + 1)..Len(burnHistory) :
                     burnHistory'[i - evicted] = burnHistory[i]]_vars

\* One more cycle than the capacity has appended: the head was evicted and a
\* different, older entry is still retained before the newest one.
C29_Witness ==
    /\ Reconciled = MAX_HISTORY_ENTRIES + 1
    /\ Len(burnHistory) = MAX_HISTORY_ENTRIES
    /\ burnHistory[1] # burnHistory[Len(burnHistory)]

\* Invocation p passes the persistence point of line 545 with a write due.
WriteDue(p) ==
    /\ pc[p] \in {"fetching", "validators"}
    /\ pc'[p] \notin {pc[p], "validators"}
    /\ ~fault'
    /\ Len(burnHistory') % SAVE_EVERY = 0

\* The write of invocation p was due and the file does not hold the history.
WriteFailed(p) ==
    WriteDue(p) /\ historyFile' # saveBurnHistory(historyFile, burnHistory', TRUE)

\* C30: a failure to read or to write the history file is not fatal: startup
\* goes on to the first cycle and the cycle goes on to its price update, the
\* in-memory history and window snapshots are what they were, and every later
\* persistence point attempts the write again.
C30_FileFailureIsNotFatal ==
    [][/\ (Loads /\ historyFile.kind \in {"missing", "corrupt"}) =>
              /\ UNCHANGED historyVars
              /\ pc'[1] = "fetching"
              /\ ~fault'
       /\ \A p \in Procs :
              /\ WriteFailed(p) =>
                     /\ pc'[p] = "price"
                     /\ historyFile' = historyFile
                     /\ pc[p] = "validators" => UNCHANGED historyVars
              /\ WriteDue(p) => savedBy' = inv[p]]_vars

\* A cycle whose write failed has finished: the file is still missing after
\* the attempt, and the history is in memory.
C30_Witness ==
    /\ savedBy # 0
    /\ pricedBy = savedBy
    /\ historyFile.kind = "missing"
    /\ burnHistory # <<>>

\* C31: the validator collection is refreshed wholesale on each cycle: every
\* cycle that reconciles runs the scan, a scan that succeeds replaces the cache
\* by exactly its decoded result, and a scan that fails leaves the cache as it
\* was (and, every cycle scanning, is retried by the next one).
C31_ValidatorsRefreshedEachCycle ==
    [][\A p \in Procs :
          /\ (Resumes(p) /\ ~fault') => pc'[p] = "validators"
          /\ \A r \in ValidatorResults, saveOk \in BOOLEAN :
                 ValidatorsDone(p, r, saveOk) =>
                     validatorCache' = IF r.result # NULL THEN r.result.array
                                       ELSE validatorCache]_vars

\* ---- program-account scans with an entry that does not decode

\* A validator account whose data is cut short of the 69-byte layout.
TruncatedAccount == [pubkey |-> Zeros(31) \o <<8>>, data |-> Zeros(VALIDATOR_LEN - 1)]

\* Scans answered by the node: a timeout, and account lists with the truncated
\* account before, between and after accounts that decode, or absent.
ScanResponses ==
    LET a == [pubkey |-> Zeros(31) \o <<7>>, data |-> ValidatorImage(1, 5, 1)]
        b == [pubkey |-> Zeros(31) \o <<9>>, data |-> ValidatorImage(2, 6, 0)]
    IN  { Throw,
          [kind |-> "ok", accounts |-> <<a, b>>],
          [kind |-> "ok", accounts |-> <<a, TruncatedAccount, b>>],
          [kind |-> "ok", accounts |-> <<TruncatedAccount, a>>],
          [kind |-> "ok", accounts |-> <<TruncatedAccount>>] }

ScanResults == { [response |-> r, result |-> fetchValidators(r)] : r \in ScanResponses }

\* One invocation at a time with the ledger queries answering and the scans
\* above; the price providers all failing.
NextScan ==
    \/ Start
    \/ Tick(MaxCycles, 1)
    \/ \E p \in Procs, in \in {AllAnswer, VaultUnparsed}, saveOk \in BOOLEAN : Reconcile(p, in, saveOk)
    \/ \E p \in Procs, r \in ScanResults, saveOk \in BOOLEAN : ValidatorsDone(p, r, saveOk)
    \/ \E p \in Procs, in \in NoPriceInputs : PriceDone(p, in)
    \/ Advance

SpecScan == InitNoFile /\ [][NextScan]_vars

\* The accounts of a scan that decode, and the scan without the others.
RECURSIVE Decodable(_)
Decodable(accounts) ==
    IF Len(accounts) = 0 THEN <<>>
    ELSE (IF deserializeValidatorFeeAccount(accounts[1].data) # NULL THEN <<accounts[1]>> ELSE <<>>)
         \o Decodable(Tail(accounts))

HasMalformed(r) == r.response.kind = "ok" /\ Decodable(r.response.accounts) # r.response.accounts

WithoutMalformed(r) ==
    LET clean == [kind |-> "ok", accounts |-> Decodable(r.response.accounts)]
    IN  [response |-> clean, result |-> fetchValidators(clean)]

\* C32: in a program-account scan an entry that fails to decode does not abort
\* the scan (the scan returns a list, holding every other entry decoded), and
\* the malformed entry is skipped and counted as anomalous: the state after the
\* scan differs from the state after the same scan without that entry.
C32_MalformedEntrySkippedAndCounted ==
    [][\A p \in Procs, r \in ScanResults, saveOk \in BOOLEAN :
          (HasMalformed(r) /\ ValidatorsDone(p, r, saveOk)) =>
              /\ r.result # NULL
              /\ validatorCache' = WithoutMalformed(r).result.array
              /\ ~ValidatorsDone(p, WithoutMalformed(r), saveOk)]_vars

\* C32, the part that holds: the scan is not aborted and the other entries are
\* all decoded and returned.
C32_MalformedEntrySkipped ==
    [][\A p \in Procs, r \in ScanResults, saveOk \in BOOLEAN :
          (HasMalformed(r) /\ ValidatorsDone(p, r, saveOk)) =>
              /\ r.result # NULL
              /\ validatorCache' = WithoutMalformed(r).result.array]_vars

\* ---- a steady on-chain burn counter, the fee-config query failing at times

\* Every query answers but the fee-config query, which fails.
FeeConfigDown == [AllAnswer EXCEPT !.feeConfig = FeeThrow]

\* The burn counter on chain stays at the value AllAnswer reads, which no entry
\* of a history file exceeds; cycles run one at a time after a start that may
\* reload a history file.
SteadyInputs == { AllAnswer, FeeConfigDown }

NextRestart ==
    \/ Start
    \/ Tick(MaxCycles, 1)
    \/ \E p \in Procs, in \in SteadyInputs, saveOk \in BOOLEAN : Reconcile(p, in, saveOk)
    \/ \E p \in Procs, r \in ValidatorResults, saveOk \in BOOLEAN : ValidatorsDone(p, r, saveOk)
    \/ \E p \in Procs, in \in NoPriceInputs : PriceDone(p, in)
    \/ Advance

SpecRestart == Init /\ [][NextRestart]_vars

\* C33: with an on-chain burn counter that never decreases, the totalBurned
\* values of consecutive entries of the burn history never decrease, whatever
\* queries fail and across a start that reloads the persisted history.
C33_HistoryTotalsNeverDecrease ==
    \A i \in 1..(Len(burnHistory) - 1) :
        burnHistory[i].totalBurned <= burnHistory[i + 1].totalBurned

\* C34: in every snapshot that carries a fee-config record, burned is that
\* record's totalBurned divided by 10^9 and circulatingSupply is the total
\* supply less burned, also after a cycle whose fee-config query failed and
\* kept the previous record.
C34_BurnedMatchesFeeConfig ==
    supplyData.feeConfig # NULL =>
        /\ supplyData.burned * LAMPORTS_PER_MYTH = supplyData.feeConfig.totalBurned
        /\ supplyData.circulatingSupply = TOTAL_SUPPLY - supplyData.burned

====
